---- MODULE Spec2Model ----
(***************************************************************************)
(* A model of the baseline rule engine of src/src/baseline_generator:      *)
(* condition-tree evaluation, priority ordering and action application     *)
(* (engine.py) over the rule data model and its generic-map form           *)
(* (schema.py), and the parser of rule texts (parser.py).                  *)
(*                                                                         *)
(* Spec is an engine built on a schema with evaluate called on it, one     *)
(* loop iteration a step; QuerySpec is the same engine with                *)
(* get_applicable_rules called on it; CondSpec is evaluate_rule as a       *)
(* function of a condition tree and a building spec; ValidateSpec is the   *)
(* engine with validate_building_spec called on it; EngineSpec is the      *)
(* engine with any one of the three calls; SharedSpec is one engine with   *)
(* the evaluate calls of two callers interleaved; SchemaSpec is to_dict    *)
(* and from_dict on schemas and documents; TextSpec is parse_rule_text as  *)
(* a function of the rule text; ParserSpec is one parser with              *)
(* parse_rule_text and parse_rules_from_text called on it in turn;         *)
(* InterleavedSpec is one parser with the parse_rule_text calls of two     *)
(* callers interleaved statement by statement.                             *)
(*                                                                         *)
(* Python values are tagged records: IntV(n) an int, StrV(s) a str,        *)
(* ListV(l) a list, NoneV the value None, FloatV(n, e) the float           *)
(* n / 10^e, HugeInt an int whose magnitude is beyond the range of a       *)
(* float (such as 10**400), on which float() raises OverflowError. The     *)
(* strings of the engine are sequences of characters, those of the parser  *)
(* are strings.                                                            *)
(***************************************************************************)
EXTENDS Integers, Sequences, FiniteSets, TLC

VARIABLES
    rules,          \* BaselineEngine.rules, the rule list of the schema
    pc,             \* position of the evaluate call: idle, loop, returned, raised
    building_spec,  \* the building_spec argument of the evaluate call
    sorted_rules,   \* the local sorted_rules of evaluate
    idx,            \* number of rules of sorted_rules the loop has processed
    baseline,       \* the local baseline document of evaluate
    applicable,     \* what get_applicable_rules gave back to its caller
    cond,           \* a condition tree handed to evaluate_rule
    cond_spec,      \* the building spec handed to evaluate_rule
    cond_result,    \* the outcome of that evaluate_rule call
    validation,     \* what validate_building_spec gave back to its caller
    calls,          \* the evaluate calls of concurrent callers, by caller
    schema,         \* a RuleSchema object
    document,       \* a generic-map document of a schema
    loaded,         \* the outcome of RuleSchema.from_dict on the document
    rule_counter,   \* RuleParser.rule_counter
    parsed,         \* the last call on the parser and what it returned
    auto_ids,       \* the ids of the rules parsed without an explicit id
    parse_calls     \* the parse_rule_text calls of concurrent callers, by caller

schema_vars == <<schema, document, loaded>>

parser_vars == <<rule_counter, parsed, auto_ids, parse_calls>>

vars == <<rules, pc, building_spec, sorted_rules, idx, baseline, applicable,
          cond, cond_spec, cond_result, validation, calls, schema_vars,
          parser_vars>>

----------------------------------------------------------------------------
(* Bounds of the model *)

MaxRules == 3
MaxNodes == 4
MaxSharedRules == 2
MaxSchemaRules == 2
MaxCalls == 4
MaxLines == 3
MaxCallsPerCaller == 2

----------------------------------------------------------------------------
(* Python values *)

IntV(n) == [t |-> "int", n |-> n]
StrV(s) == [t |-> "str", s |-> s]
ListV(l) == [t |-> "list", l |-> l]
NoneV == [t |-> "none"]
HugeInt == [t |-> "hugeint"]

office == <<"o", "f", "f", "i", "c", "e">>
retail == <<"r", "e", "t", "a", "i", "l">>
fifteen == <<"1", "5">>
not_a_number == <<"n", "/", "a">>
office_retail == office \o <<"_">> \o retail

Digits == <<"0", "1", "2", "3", "4", "5", "6", "7", "8", "9">>

\* An outcome of a Python expression: a value, or an exception raised.
Ok(b) == [exc |-> "", val |-> b]
Raise(e) == [exc |-> e, val |-> FALSE]

DigitValue(c) == (CHOOSE i \in 1..10 : Digits[i] = c) - 1

IsDigit(c) == \E i \in 1..10 : Digits[i] = c

RECURSIVE DecimalValue(_)
DecimalValue(s) ==
    IF s = <<>> THEN 0
    ELSE 10 * DecimalValue(SubSeq(s, 1, Len(s) - 1)) + DigitValue(s[Len(s)])

\* float(str) on the strings of the model: an optional sign and decimal
\* digits is that number, any other text a ValueError. (The strings of the
\* model hold no ".", exponent, "_", blank, "inf" or "nan".)
ParseFloat(s) ==
    LET body == IF s # <<>> /\ s[1] = "-" THEN Tail(s) ELSE s
        neg == s # <<>> /\ s[1] = "-"
    IN IF body # <<>> /\ \A i \in 1..Len(body) : IsDigit(body[i])
       THEN Ok(IF neg THEN 0 - DecimalValue(body) ELSE DecimalValue(body))
       ELSE Raise("ValueError")

\* float(v)
ToFloat(v) ==
    CASE v.t = "int" -> Ok(v.n)
      [] v.t = "hugeint" -> Raise("OverflowError")
      [] v.t = "str" -> ParseFloat(v.s)
      [] OTHER -> Raise("TypeError")

\* float(a) <op> float(b), the left operand converted first
FloatCompare(a, b, op) ==
    LET x == ToFloat(a)
        y == ToFloat(b)
    IN IF x.exc # "" THEN Raise(x.exc)
       ELSE IF y.exc # "" THEN Raise(y.exc)
       ELSE Ok(CASE op = "greater_than" -> x.val > y.val
                 [] op = "less_than" -> x.val < y.val
                 [] op = "greater_than_or_equal" -> x.val >= y.val
                 [] op = "less_than_or_equal" -> x.val <= y.val)

IsSubstring(a, b) ==
    \E i \in 0..(Len(b) - Len(a)) : SubSeq(b, i + 1, i + Len(a)) = a

ContainsCharacterWise(a, b) ==
    CASE b.t = "list" -> Ok(\E i \in 1..Len(b.l) : b.l[i] = a)
      [] b.t = "str" -> IF a.t = "str"
                        THEN Ok(Len(a.s) = 1
                                /\ \E i \in 1..Len(b.s) : b.s[i] = a.s[1])
                        ELSE Raise("TypeError")
      [] OTHER -> Raise("TypeError")

\* a in b
Contains(a, b) ==
    CASE b.t = "list" -> Ok(\E i \in 1..Len(b.l) : b.l[i] = a)
      [] b.t = "str" -> IF a.t = "str" THEN Ok(IsSubstring(a.s, b.s))
                        ELSE Raise("TypeError")
      [] OTHER -> Raise("TypeError")

\* except (ValueError, TypeError): return False
ExceptValueOrType(r) ==
    IF r.exc \in {"ValueError", "TypeError"} THEN Ok(FALSE) ELSE r

\* Mutant of Negate: the membership test left as it is.
NegateDropped(r) == r

\* not (a in b)
Negate(r) == IF r.exc # "" THEN r ELSE Ok(~r.val)

----------------------------------------------------------------------------
(* schema.py: the data model *)

ComparisonOperator ==
    {"equals", "not_equals", "greater_than", "less_than",
     "greater_than_or_equal", "less_than_or_equal", "in", "not_in"}

LogicalOperator == {"and", "or", "not"}

\* Condition(field, operator, value), unit left at its default None
Condition(f, op, v) ==
    [kind |-> "Condition", field |-> f, operator |-> op, value |-> v,
     unit |-> NoneV]

\* Condition(field, operator, value, unit)
ConditionWithUnit(f, op, v, u) ==
    [kind |-> "Condition", field |-> f, operator |-> op, value |-> v,
     unit |-> u]

ConditionGroup(op, cs) ==
    [kind |-> "ConditionGroup", operator |-> op, conditions |-> cs]

Action(ty, tg, v, ps) ==
    [action_type |-> ty, target |-> tg, value |-> v, parameters |-> ps]

Rule(id, nm, ds, cat, c, as, p) ==
    [id |-> id, name |-> nm, description |-> ds, category |-> cat,
     conditions |-> c, actions |-> as, priority |-> p, metadata |-> <<>>]

RuleSchema(version, rs, md) ==
    [version |-> version, rules |-> rs, metadata |-> md]

----------------------------------------------------------------------------
(* schema.py: to_dict, the objects as generic maps *)

\* bool(x) of an optional string or of a mapping: None, "" and {} are false.
Truthy(x) ==
    IF DOMAIN x = {} THEN FALSE
    ELSE IF "t" \in DOMAIN x
         THEN x.t # "none" /\ (x.t = "str" => Len(x.s) # 0)
         ELSE TRUE

\* The mapping d without the key k.
WithoutKey(d, k) == [x \in DOMAIN d \ {k} |-> d[x]]

\* Condition.to_dict
condition_to_dict(c) ==
    LET result == [field |-> c.field, operator |-> c.operator, value |-> c.value]
    IN IF Truthy(c.unit) THEN ("unit" :> c.unit) @@ result ELSE result

RECURSIVE conditions_to_dict(_)
\* ConditionGroup.to_dict, and c.to_dict() for either kind of member
conditions_to_dict(c) ==
    IF c.kind = "Condition" THEN condition_to_dict(c)
    ELSE [operator |-> c.operator,
          conditions |-> [i \in 1..Len(c.conditions) |->
                            conditions_to_dict(c.conditions[i])]]

\* Action.to_dict
action_to_dict(a) ==
    LET result == [action_type |-> a.action_type, target |-> a.target,
                   value |-> a.value]
    IN IF Truthy(a.parameters) THEN ("parameters" :> a.parameters) @@ result
       ELSE result

\* Rule.to_dict
rule_to_dict(r) ==
    LET result == [id |-> r.id, name |-> r.name, description |-> r.description,
                   category |-> r.category,
                   conditions |-> conditions_to_dict(r.conditions),
                   actions |-> [i \in 1..Len(r.actions) |->
                                    action_to_dict(r.actions[i])],
                   priority |-> r.priority]
    IN IF Truthy(r.metadata) THEN ("metadata" :> r.metadata) @@ result
       ELSE result

\* RuleSchema.to_dict
to_dict(sch) ==
    LET result == [version |-> sch.version,
                   rules |-> [i \in 1..Len(sch.rules) |->
                                rule_to_dict(sch.rules[i])]]
    IN IF Truthy(sch.metadata) THEN ("metadata" :> sch.metadata) @@ result
       ELSE result

----------------------------------------------------------------------------
(* schema.py: from_dict, generic maps back to objects *)

\* The outcome of an expression that gave the value v.
Value(v) == [exc |-> "", val |-> v]

\* d[k], a KeyError when d has no key k
Item(d, k) == IF k \in DOMAIN d THEN Value(d[k]) ELSE Raise("KeyError")

\* d.get(k, default)
GetOr(d, k, default) == IF k \in DOMAIN d THEN d[k] ELSE default

\* The first exception among the outcomes os, in order; "" if none raised.
FirstException(os) ==
    IF \A i \in 1..Len(os) : os[i].exc = "" THEN ""
    ELSE os[CHOOSE i \in 1..Len(os) :
                /\ os[i].exc # ""
                /\ \A j \in 1..(i - 1) : os[j].exc = ""].exc

\* EnumClass(literal): the member with that value, a ValueError if the
\* enumeration has none. A member of a str enumeration equals its literal.
EnumMember(members, literal) ==
    IF literal.exc # "" THEN literal
    ELSE IF literal.val \in members THEN literal ELSE Raise("ValueError")

\* Mutant of parse_condition: the unit of the document is not read.
parse_condition_without_unit(data) ==
    LET args == <<Item(data, "field"),
                  EnumMember(ComparisonOperator, Item(data, "operator")),
                  Item(data, "value")>>
    IN IF FirstException(args) # "" THEN Raise(FirstException(args))
       ELSE Value(ConditionWithUnit(args[1].val, args[2].val, args[3].val,
                                    NoneV))

\* RuleSchema._parse_condition
parse_condition(data) ==
    LET args == <<Item(data, "field"),
                  EnumMember(ComparisonOperator, Item(data, "operator")),
                  Item(data, "value")>>
    IN IF FirstException(args) # "" THEN Raise(FirstException(args))
       ELSE Value(ConditionWithUnit(args[1].val, args[2].val, args[3].val,
                                    GetOr(data, "unit", NoneV)))

\* The test of from_dict and _parse_condition_group for a group node.
IsGroupData(data) == "operator" \in DOMAIN data /\ "conditions" \in DOMAIN data

RECURSIVE parse_condition_group_reversed(_)
\* Mutant of parse_condition_group: the members in reverse order.
parse_condition_group_reversed(data) ==
    LET members == Item(data, "conditions")
        parsed_members ==
            [i \in 1..Len(members.val) |->
                IF IsGroupData(members.val[i])
                THEN parse_condition_group_reversed(members.val[i])
                ELSE parse_condition(members.val[i])]
        operator == EnumMember(LogicalOperator, Item(data, "operator"))
    IN IF members.exc # "" THEN members
       ELSE IF FirstException(parsed_members) # ""
            THEN Raise(FirstException(parsed_members))
            ELSE IF operator.exc # "" THEN operator
                 ELSE Value(ConditionGroup(operator.val,
                        [i \in 1..Len(members.val) |->
                            parsed_members[Len(members.val) + 1 - i].val]))

RECURSIVE parse_condition_group(_)
\* RuleSchema._parse_condition_group: the members first, in order, then
\* the operator.
parse_condition_group(data) ==
    LET members == Item(data, "conditions")
        parsed_members ==
            [i \in 1..Len(members.val) |->
                IF IsGroupData(members.val[i])
                THEN parse_condition_group(members.val[i])
                ELSE parse_condition(members.val[i])]
        operator == EnumMember(LogicalOperator, Item(data, "operator"))
    IN IF members.exc # "" THEN members
       ELSE IF FirstException(parsed_members) # ""
            THEN Raise(FirstException(parsed_members))
            ELSE IF operator.exc # "" THEN operator
                 ELSE Value(ConditionGroup(operator.val,
                        [i \in 1..Len(members.val) |-> parsed_members[i].val]))

\* Mutant of parse_action: the parameters of the document are not read.
parse_action_without_parameters(action_data) ==
    LET args == <<Item(action_data, "action_type"), Item(action_data, "target"),
                  Item(action_data, "value")>>
    IN IF FirstException(args) # "" THEN Raise(FirstException(args))
       ELSE Value(Action(args[1].val, args[2].val, args[3].val, <<>>))

\* The Action(...) of from_dict for one member of rule_data["actions"]
parse_action(action_data) ==
    LET args == <<Item(action_data, "action_type"), Item(action_data, "target"),
                  Item(action_data, "value")>>
    IN IF FirstException(args) # "" THEN Raise(FirstException(args))
       ELSE Value(Action(args[1].val, args[2].val, args[3].val,
                         GetOr(action_data, "parameters", <<>>)))

\* The body of the loop of from_dict for one member of data["rules"]
parse_rule(rule_data) ==
    LET conditions_data == Item(rule_data, "conditions")
        conditions == IF conditions_data.exc # "" THEN conditions_data
                      ELSE IF IsGroupData(conditions_data.val)
                           THEN parse_condition_group(conditions_data.val)
                           ELSE parse_condition(conditions_data.val)
        actions_data == Item(rule_data, "actions")
        actions == IF actions_data.exc # "" THEN <<actions_data>>
                   ELSE [i \in 1..Len(actions_data.val) |->
                            parse_action(actions_data.val[i])]
        args == <<conditions>> \o actions \o
                <<Item(rule_data, "id"), Item(rule_data, "name"),
                  Item(rule_data, "description"), Item(rule_data, "category")>>
    IN IF FirstException(args) # "" THEN Raise(FirstException(args))
       ELSE Value([id |-> rule_data.id, name |-> rule_data.name,
                   description |-> rule_data.description,
                   category |-> rule_data.category,
                   conditions |-> conditions.val,
                   actions |-> [i \in 1..Len(actions) |-> actions[i].val],
                   priority |-> GetOr(rule_data, "priority", 0),
                   metadata |-> GetOr(rule_data, "metadata", <<>>)])

\* RuleSchema.from_dict
from_dict(data) ==
    LET rules_data == GetOr(data, "rules", <<>>)
        parsed_rules == [i \in 1..Len(rules_data) |-> parse_rule(rules_data[i])]
        args == parsed_rules \o <<Item(data, "version")>>
    IN IF FirstException(args) # "" THEN Raise(FirstException(args))
       ELSE Value(RuleSchema(data.version,
                             [i \in 1..Len(rules_data) |-> parsed_rules[i].val],
                             GetOr(data, "metadata", <<>>)))

----------------------------------------------------------------------------
(* engine.py: condition evaluation *)

\* building_spec.get(field)
Get(spec, f) == IF f \in DOMAIN spec THEN spec[f] ELSE NoneV

\* The operator dispatch of _evaluate_condition, inside its try block.
CompareValues(field_value, operator, target_value) ==
    CASE operator = "equals" -> Ok(field_value = target_value)
      [] operator = "not_equals" -> Ok(field_value # target_value)
      [] operator \in {"greater_than", "less_than", "greater_than_or_equal",
                       "less_than_or_equal"} ->
            FloatCompare(field_value, target_value, operator)
      [] operator = "in" -> Contains(field_value, target_value)
      [] operator = "not_in" -> Negate(Contains(field_value, target_value))
      [] OTHER -> Ok(FALSE)

\* Mutant of evaluate_condition: no early return on a missing field.
evaluate_condition_unguarded(condition, spec) ==
    ExceptValueOrType(
        CompareValues(Get(spec, condition.field), condition.operator,
                      condition.value))

evaluate_condition(condition, spec) ==
    LET field_value == Get(spec, condition.field)
    IN IF field_value = NoneV THEN Ok(FALSE)
       ELSE ExceptValueOrType(
                CompareValues(field_value, condition.operator, condition.value))

\* Mutant of ApplyLogicalOperator: "not" as not all(results).
ApplyLogicalOperatorNotAll(operator, results) ==
    CASE operator = "and" -> \A i \in 1..Len(results) : results[i]
      [] operator = "or" -> \E i \in 1..Len(results) : results[i]
      [] operator = "not" -> ~(\A i \in 1..Len(results) : results[i])
      [] OTHER -> FALSE

\* all(results), any(results), not any(results) by group.operator
ApplyLogicalOperator(operator, results) ==
    CASE operator = "and" -> \A i \in 1..Len(results) : results[i]
      [] operator = "or" -> \E i \in 1..Len(results) : results[i]
      [] operator = "not" -> ~(\E i \in 1..Len(results) : results[i])
      [] OTHER -> FALSE

RECURSIVE evaluate_condition_group(_, _)
RECURSIVE GroupResults(_, _, _)

\* The loop of _evaluate_condition_group: the results list after the
\* children from position i on were evaluated and appended to acc; an
\* exception raised by a child ends the loop and propagates.
GroupResults(conds, spec, acc) ==
    IF conds = <<>> THEN Ok(acc)
    ELSE LET c == Head(conds)
             r == CASE c.kind = "Condition" -> evaluate_condition(c, spec)
                    [] c.kind = "ConditionGroup" ->
                          evaluate_condition_group(c, spec)
                    [] OTHER -> Ok(FALSE)
         IN IF r.exc # "" THEN r
            ELSE GroupResults(Tail(conds), spec,
                    IF c.kind \in {"Condition", "ConditionGroup"}
                    THEN Append(acc, r.val) ELSE acc)

evaluate_condition_group(group, spec) ==
    LET results == GroupResults(group.conditions, spec, <<>>)
    IN IF results.exc # "" THEN results
       ELSE Ok(ApplyLogicalOperator(group.operator, results.val))

\* evaluate_rule on the rule's condition tree
evaluate_rule(conditions, spec) ==
    CASE conditions.kind = "Condition" -> evaluate_condition(conditions, spec)
      [] conditions.kind = "ConditionGroup" ->
            evaluate_condition_group(conditions, spec)
      [] OTHER -> Ok(FALSE)

----------------------------------------------------------------------------
(* Inputs of the condition evaluator *)

Fields == {"building_type", "building_area"}

\* Values a building specification file can hold for a field.
SpecValues ==
    {IntV(15), IntV(5), StrV(office), StrV(fifteen), StrV(not_a_number),
     ListV(<<StrV(office)>>), HugeInt, NoneV}

\* Values a condition can compare against.
CondValues ==
    {IntV(10), IntV(15), StrV(office), StrV(fifteen), StrV(not_a_number),
     StrV(office_retail), ListV(<<StrV(office), IntV(15)>>), ListV(<<>>),
     HugeInt}

\* Every building specification over Fields: any subset of the fields set.
AllSpecs ==
    UNION {[D -> SpecValues] : D \in SUBSET Fields}

\* Every single Condition, the operators of the enumeration and one
\* operator string outside it.
LeafConditions ==
    {Condition(f, op, v) :
        f \in Fields, op \in ComparisonOperator \cup {"matches"}, v \in CondValues}

\* The leaves of the generated condition trees.
TreeLeaves ==
    {Condition("building_type", "equals", StrV(office)),
     Condition("building_area", "greater_than", IntV(10))}

\* The building specifications the trees are evaluated against: each leaf
\* true or false, a field absent, and a value float() cannot convert.
TreeSpecs ==
    {[building_type |-> StrV(office), building_area |-> IntV(15)],
     [building_type |-> StrV(office), building_area |-> IntV(5)],
     [building_type |-> StrV(retail), building_area |-> IntV(15)],
     [building_type |-> StrV(retail)],
     [building_type |-> StrV(retail), building_area |-> HugeInt]}

RECURSIVE TreesOfSize(_)
RECURSIVE ForestsOfSize(_)

\* The condition trees with exactly n nodes (Conditions and ConditionGroups).
TreesOfSize(n) ==
    IF n = 1
    THEN TreeLeaves \cup {ConditionGroup(op, <<>>) : op \in LogicalOperator}
    ELSE {ConditionGroup(op, cs) : op \in LogicalOperator, cs \in ForestsOfSize(n - 1)}

\* The non-empty sequences of condition trees with m nodes in all.
ForestsOfSize(m) ==
    UNION {IF k = m THEN {<<t>> : t \in TreesOfSize(k)}
           ELSE {<<t>> \o f : t \in TreesOfSize(k), f \in ForestsOfSize(m - k)} :
           k \in 1..m}

\* The condition trees of at most MaxNodes nodes.
ConditionTrees == UNION {TreesOfSize(n) : n \in 1..MaxNodes}

----------------------------------------------------------------------------
(* CondSpec: evaluate_rule as a function of a condition tree and a spec *)

NoResult == [exc |-> "unset", val |-> FALSE]

\* No schema has been serialized or deserialized.
NoSchemaCall ==
    /\ schema = <<>>
    /\ document = <<>>
    /\ loaded = NoResult

\* RuleParser() has been constructed and not called.
NoParserCall ==
    /\ rule_counter = 0
    /\ parsed = [call |-> "none", text |-> "", rule_id |-> NoneV,
                 rules |-> <<>>]
    /\ auto_ids = <<>>
    /\ parse_calls = <<>>

\* validate_building_spec and concurrent evaluate have not been called.
NoEngineCall ==
    /\ validation = NoResult
    /\ calls = <<>>

CondInit ==
    /\ \/ cond \in LeafConditions /\ cond_spec \in AllSpecs
       \/ cond \in ConditionTrees /\ cond_spec \in TreeSpecs
    /\ cond_result = NoResult
    /\ rules = <<>>
    /\ pc = "idle"
    /\ building_spec = <<>>
    /\ sorted_rules = <<>>
    /\ idx = 0
    /\ baseline = <<>>
    /\ applicable = <<>>
    /\ NoEngineCall
    /\ NoSchemaCall
    /\ NoParserCall

EvaluateRule ==
    /\ cond_result = NoResult
    /\ cond_result' = evaluate_rule(cond, cond_spec)
    /\ UNCHANGED <<rules, pc, building_spec, sorted_rules, idx, baseline,
                   applicable, cond, cond_spec>>
    /\ UNCHANGED <<validation, calls, schema_vars, parser_vars>>

CondNext == EvaluateRule

CondSpec == CondInit /\ [][CondNext]_vars

----------------------------------------------------------------------------
(* engine.py: evaluate *)

\* baseline_properties[key] = value on a dict
SetItem(d, key, value) == (key :> value) @@ d

\* Mutant of StoredValue: an action of another type stores its bare value.
StoredValueBare(action) ==
    CASE action.action_type = "apply_method" ->
            [method |-> action.value, parameters |-> action.parameters]
      [] action.action_type = "reference_table" ->
            [table |-> action.value, parameters |-> action.parameters]
      [] OTHER -> action.value

\* What one action stores under its target.
StoredValue(action) ==
    CASE action.action_type = "set_value" -> action.value
      [] action.action_type = "apply_method" ->
            [method |-> action.value, parameters |-> action.parameters]
      [] action.action_type = "reference_table" ->
            [table |-> action.value, parameters |-> action.parameters]
      [] action.action_type = "evaluate" -> action.value
      [] OTHER ->
            [action_type |-> action.action_type, value |-> action.value,
             parameters |-> action.parameters]

RECURSIVE apply_actions_keep_first(_, _)
\* Mutant of apply_actions: a target already set is left as it is.
apply_actions_keep_first(actions, baseline_properties) ==
    IF actions = <<>> THEN baseline_properties
    ELSE apply_actions_keep_first(Tail(actions),
            IF Head(actions).target \in DOMAIN baseline_properties
            THEN baseline_properties
            ELSE SetItem(baseline_properties, Head(actions).target,
                         StoredValue(Head(actions))))

RECURSIVE apply_actions(_, _)
\* _apply_actions: the actions in list order, each overwriting its target
apply_actions(actions, baseline_properties) ==
    IF actions = <<>> THEN baseline_properties
    ELSE apply_actions(Tail(actions),
            SetItem(baseline_properties, Head(actions).target,
                    StoredValue(Head(actions))))

RECURSIVE InsertBeforeEqual(_, _)
\* Mutant of InsertByPriority: r placed ahead of the rules of its priority.
InsertBeforeEqual(r, s) ==
    IF s = <<>> THEN <<r>>
    ELSE IF Head(s).priority > r.priority
         THEN <<Head(s)>> \o InsertBeforeEqual(r, Tail(s))
         ELSE <<r>> \o s

RECURSIVE InsertByPriority(_, _)
\* r placed behind every rule of s whose priority is at least its own
InsertByPriority(r, s) ==
    IF s = <<>> THEN <<r>>
    ELSE IF Head(s).priority >= r.priority
         THEN <<Head(s)>> \o InsertByPriority(r, Tail(s))
         ELSE <<r>> \o s

RECURSIVE SortedByPriority(_)
\* sorted(self.rules, key=lambda r: r.priority, reverse=True): a new list,
\* stable, so that rules of equal priority keep their order
SortedByPriority(rs) ==
    IF rs = <<>> THEN <<>>
    ELSE InsertByPriority(rs[Len(rs)],
                          SortedByPriority(SubSeq(rs, 1, Len(rs) - 1)))

\* Mutant of RulesAfterSorted: the rule list sorted in place.
RulesAfterSortInPlace(rs) == SortedByPriority(rs)

\* The list self.rules after sorted(self.rules, ...): sorted builds a new
\* list and leaves its argument as it was.
RulesAfterSorted(rs) == rs

\* The baseline document evaluate starts from.
NewBaseline(spec) ==
    [input |-> spec, matched_rules |-> <<>>, baseline_properties |-> <<>>,
     evaluation_log |-> <<>>]

\* Mutant of ProcessRule: the actions applied whether the rule matched or not.
ProcessRuleAlwaysApplies(rule, matched, doc) ==
    [doc EXCEPT
        !.matched_rules =
            IF matched
            THEN Append(@, [rule_id |-> rule.id, rule_name |-> rule.name,
                            category |-> rule.category])
            ELSE @,
        !.baseline_properties = apply_actions(rule.actions, @),
        !.evaluation_log = Append(@,
            [rule_id |-> rule.id,
             status |-> IF matched THEN "matched" ELSE "not_matched",
             message |-> IF matched
                         THEN <<"Rule '", rule.name, "' matched and applied">>
                         ELSE <<"Rule '", rule.name, "' conditions not met">>])]

\* One pass of the loop body of evaluate for a rule whose conditions
\* evaluated to matched.
ProcessRule(rule, matched, doc) ==
    IF matched
    THEN [doc EXCEPT
            !.matched_rules = Append(@,
                [rule_id |-> rule.id, rule_name |-> rule.name,
                 category |-> rule.category]),
            !.baseline_properties = apply_actions(rule.actions, @),
            !.evaluation_log = Append(@,
                [rule_id |-> rule.id, status |-> "matched",
                 message |-> <<"Rule '", rule.name, "' matched and applied">>])]
    ELSE [doc EXCEPT
            !.evaluation_log = Append(@,
                [rule_id |-> rule.id, status |-> "not_matched",
                 message |-> <<"Rule '", rule.name, "' conditions not met">>])]

RECURSIVE ApplicableRules(_, _, _)
\* The loop of get_applicable_rules from the rules rs on, applicable so far
\* in acc; an exception raised by evaluate_rule propagates.
ApplicableRules(rs, spec, acc) ==
    IF rs = <<>> THEN Ok(acc)
    ELSE LET r == evaluate_rule(Head(rs).conditions, spec)
         IN IF r.exc # "" THEN Raise(r.exc)
            ELSE ApplicableRules(Tail(rs), spec,
                    IF r.val THEN Append(acc, Head(rs)) ELSE acc)

\* Mutant of get_applicable_rules: the rules walked in priority order.
get_applicable_rules_by_priority(rs, spec) ==
    ApplicableRules(SortedByPriority(rs), spec, <<>>)

\* get_applicable_rules(building_spec) on an engine whose rule list is rs
get_applicable_rules(rs, spec) == ApplicableRules(rs, spec, <<>>)

----------------------------------------------------------------------------
(* Inputs of the engine *)

Priorities == {5, 10}

RuleIds == <<"r001", "r002", "r003", "r004", "r005", "r006">>

NoParameters == <<>>

\* The condition tree, the actions, the name and the category of the rules
\* the schemas are made of.
RuleBodies ==
    << [name |-> "Office LPD", category |-> "lighting",
        conditions |-> Condition("building_type", "equals", StrV(office)),
        actions |-> <<Action("set_value", "lighting_power_density", IntV(1),
                             NoParameters)>>],
       [name |-> "Large building", category |-> "lighting",
        conditions |-> Condition("building_area", "greater_than", IntV(10)),
        actions |-> <<Action("set_value", "lighting_power_density", IntV(2),
                             NoParameters),
                      Action("apply_method", "cooling_cop", StrV(office),
                             [zone |-> IntV(5)])>>],
       [name |-> "Retail table", category |-> "hvac",
        conditions |-> ConditionGroup("or",
            <<Condition("building_type", "matches", StrV(retail)),
              Condition("building_type", "equals", StrV(retail))>>),
        actions |-> <<Action("reference_table", "cooling_cop", StrV(retail),
                             NoParameters),
                      Action("evaluate", "compliance", StrV(fifteen),
                             NoParameters)>>],
       [name |-> "Always", category |-> "envelope",
        conditions |-> ConditionGroup("and", <<>>),
        actions |-> <<Action("set_value", "lighting_power_density", IntV(4),
                             NoParameters),
                      Action("scale", "lighting_power_density", IntV(3),
                             NoParameters)>>] >>

\* The rule at position i of a schema, made of body b at priority p.
MakeRule(i, b, p) ==
    Rule(RuleIds[i], RuleBodies[b].name, "A test rule", RuleBodies[b].category,
         RuleBodies[b].conditions, RuleBodies[b].actions, p)

\* The rule lists of the schemas: up to MaxRules rules, ids unique.
RuleSets ==
    UNION {{[i \in 1..n |-> MakeRule(i, choice[i][1], choice[i][2])] :
                choice \in [1..n -> (1..Len(RuleBodies)) \X Priorities]} :
           n \in 0..MaxRules}

\* The building specifications evaluate is called with.
BuildingSpecs ==
    {<<>>,
     [building_type |-> StrV(office), building_area |-> IntV(15)],
     [building_type |-> StrV(retail), building_area |-> IntV(5)],
     [building_type |-> StrV(office), building_area |-> StrV(not_a_number)],
     [building_type |-> StrV(retail), building_area |-> HugeInt]}

----------------------------------------------------------------------------
(* Spec: an engine constructed on a schema, evaluate called on it *)

NoCall == [spec |-> <<>>, result |-> [exc |-> "unset", val |-> FALSE]]

\* BaselineEngine(rule_schema); with no schema the rule list is empty.
Init ==
    /\ rules \in RuleSets
    /\ pc = "idle"
    /\ building_spec = <<>>
    /\ sorted_rules = <<>>
    /\ idx = 0
    /\ baseline = NewBaseline(<<>>)
    /\ applicable = NoCall
    /\ cond = <<>>
    /\ cond_spec = <<>>
    /\ cond_result = NoResult
    /\ NoEngineCall
    /\ NoSchemaCall
    /\ NoParserCall

\* evaluate(spec) up to the start of the loop
EvaluateStart ==
    /\ pc # "loop"
    /\ \E spec \in BuildingSpecs :
        /\ building_spec' = spec
        /\ baseline' = NewBaseline(spec)
    /\ sorted_rules' = SortedByPriority(rules)
    /\ rules' = RulesAfterSorted(rules)
    /\ idx' = 0
    /\ pc' = "loop"
    /\ UNCHANGED <<applicable, cond, cond_spec, cond_result>>
    /\ UNCHANGED <<validation, calls, schema_vars, parser_vars>>

\* one iteration of the loop of evaluate
EvaluateStep ==
    /\ pc = "loop"
    /\ idx < Len(sorted_rules)
    /\ LET rule == sorted_rules[idx + 1]
           r == evaluate_rule(rule.conditions, building_spec)
       IN IF r.exc # ""
          THEN /\ pc' = "raised"
               /\ UNCHANGED <<baseline, idx>>
          ELSE /\ baseline' = ProcessRule(rule, r.val, baseline)
               /\ idx' = idx + 1
               /\ pc' = pc
    /\ UNCHANGED <<rules, building_spec, sorted_rules, applicable, cond,
                   cond_spec, cond_result>>
    /\ UNCHANGED <<validation, calls, schema_vars, parser_vars>>

\* return baseline
EvaluateReturn ==
    /\ pc = "loop"
    /\ idx = Len(sorted_rules)
    /\ pc' = "returned"
    /\ UNCHANGED <<rules, building_spec, sorted_rules, idx, baseline,
                   applicable, cond, cond_spec, cond_result>>
    /\ UNCHANGED <<validation, calls, schema_vars, parser_vars>>

\* get_applicable_rules(spec)
GetApplicableRules ==
    /\ pc # "loop"
    /\ \E spec \in BuildingSpecs :
        applicable' = [spec |-> spec, result |-> get_applicable_rules(rules, spec)]
    /\ UNCHANGED <<rules, pc, building_spec, sorted_rules, idx, baseline,
                   cond, cond_spec, cond_result>>
    /\ UNCHANGED <<validation, calls, schema_vars, parser_vars>>

Next ==
    \/ EvaluateStart
    \/ EvaluateStep
    \/ EvaluateReturn

Spec == Init /\ [][Next]_vars

----------------------------------------------------------------------------
(* QuerySpec: the same engine, get_applicable_rules called on it *)

QueryNext == GetApplicableRules

QuerySpec == Init /\ [][QueryNext]_vars

----------------------------------------------------------------------------
(* ValidateSpec: the same engine, validate_building_spec called on it *)

RECURSIVE TopLevelFields(_)
\* The fields of the Conditions among conds, groups skipped.
TopLevelFields(conds) ==
    IF conds = <<>> THEN <<>>
    ELSE (IF Head(conds).kind = "Condition" THEN <<Head(conds).field>> ELSE <<>>)
         \o TopLevelFields(Tail(conds))

\* Mutant of get_required_fields: the groups inside a group are not entered.
get_required_fields_one_level(conditions) ==
    IF conditions.kind = "Condition" THEN <<conditions.field>>
    ELSE IF conditions.kind = "ConditionGroup"
         THEN TopLevelFields(conditions.conditions)
         ELSE <<>>

RECURSIVE get_required_fields(_)
RECURSIVE ExtendFields(_, _)

\* The loop of _get_required_fields over the members of a group: fields
\* extended by the required fields of each member in turn.
ExtendFields(conds, fields) ==
    IF conds = <<>> THEN fields
    ELSE ExtendFields(Tail(conds), fields \o get_required_fields(Head(conds)))

\* _get_required_fields(conditions): the list of the fields of the leaves.
get_required_fields(conditions) ==
    IF conditions.kind = "Condition" THEN <<conditions.field>>
    ELSE IF conditions.kind = "ConditionGroup"
         THEN ExtendFields(conditions.conditions, <<>>)
         ELSE <<>>

\* The set required_fields of validate_building_spec.
RequiredFields(rs) ==
    UNION {{get_required_fields(rs[i].conditions)[k] :
                k \in 1..Len(get_required_fields(rs[i].conditions))} :
           i \in 1..Len(rs)}

\* The orders in which a loop can meet the members of a set.
IterationOrders(S) ==
    {order \in [1..Cardinality(S) -> S] :
        \A i, j \in 1..Cardinality(S) : order[i] = order[j] => i = j}

RECURSIVE MissingFieldWarningsByValue(_, _)
\* Mutant of MissingFieldWarnings: a field is missing when
\* building_spec.get(field) is None.
MissingFieldWarningsByValue(order, spec) ==
    IF order = <<>> THEN <<>>
    ELSE (IF Get(spec, Head(order)) = NoneV
          THEN << <<"Missing field: ", Head(order)>> >>
          ELSE <<>>)
         \o MissingFieldWarningsByValue(Tail(order), spec)

RECURSIVE MissingFieldWarnings(_, _)
\* The warnings appended while the fields are met in the given order.
MissingFieldWarnings(order, spec) ==
    IF order = <<>> THEN <<>>
    ELSE (IF Head(order) \notin DOMAIN spec
          THEN << <<"Missing field: ", Head(order)>> >>
          ELSE <<>>)
         \o MissingFieldWarnings(Tail(order), spec)

\* validate_building_spec(building_spec), the fields met in the given order.
validate_building_spec(order, spec) ==
    [valid |-> TRUE, errors |-> <<>>,
     warnings |-> MissingFieldWarnings(order, spec)]

\* Engines of one rule over every generated condition tree.
TreeRuleSets ==
    {<<Rule(RuleIds[1], "Tree", "A test rule", "general", t, <<>>, 5)>> :
        t \in ConditionTrees}

\* The building specifications handed to validate_building_spec.
ValidatedSpecs ==
    BuildingSpecs \cup TreeSpecs \cup
    {[building_area |-> IntV(15)], [building_type |-> NoneV]}

ValidateInit ==
    /\ rules \in RuleSets \cup TreeRuleSets
    /\ pc = "idle"
    /\ building_spec = <<>>
    /\ sorted_rules = <<>>
    /\ idx = 0
    /\ baseline = NewBaseline(<<>>)
    /\ applicable = NoCall
    /\ cond = <<>>
    /\ cond_spec = <<>>
    /\ cond_result = NoResult
    /\ NoEngineCall
    /\ NoSchemaCall
    /\ NoParserCall

\* validate_building_spec(spec); a set is iterated in an order the hashes
\* of its members decide, which differs from run to run.
ValidateBuildingSpec ==
    /\ \E spec \in ValidatedSpecs :
         \E order \in IterationOrders(RequiredFields(rules)) :
            validation' = [spec |-> spec,
                           result |-> validate_building_spec(order, spec)]
    /\ UNCHANGED <<rules, pc, building_spec, sorted_rules, idx, baseline,
                   applicable, cond, cond_spec, cond_result, calls,
                   schema_vars, parser_vars>>

ValidateNext == ValidateBuildingSpec

ValidateSpec == ValidateInit /\ [][ValidateNext]_vars

----------------------------------------------------------------------------
(* EngineSpec: the same engine under a caller of evaluate (which is all   *)
(* generate_baseline runs before it formats the document), a caller of    *)
(* get_applicable_rules or a caller of validate_building_spec, each       *)
(* calling any number of times                                            *)

EngineNext ==
    \/ applicable = NoCall /\ validation = NoResult /\ Next
    \/ pc = "idle" /\ validation = NoResult /\ QueryNext
    \/ pc = "idle" /\ applicable = NoCall /\ ValidateNext

EngineSpec == Init /\ [][EngineNext]_vars

----------------------------------------------------------------------------
(* SharedSpec: evaluate called by concurrent callers on engines that share *)
(* one RuleSchema, each call reading the same rule list                    *)

Callers == {"caller1", "caller2"}

\* The locals of an evaluate call that has not started.
NotCalled ==
    [pc |-> "idle", building_spec |-> <<>>, sorted_rules |-> <<>>, idx |-> 0,
     baseline |-> NewBaseline(<<>>)]

\* Mutant of LocalBaseline: one baseline document, that of caller1, read
\* by every call.
OneBaseline(cs, c) == cs["caller1"].baseline

\* The local variable baseline of the evaluate call of caller c.
LocalBaseline(cs, c) == cs[c].baseline

\* The schemas shared by concurrent callers: up to MaxSharedRules rules.
SharedRuleSets == {rs \in RuleSets : Len(rs) <= MaxSharedRules}

\* The building specifications of the concurrent callers: those with an
\* integer building_area, one of them beyond the float range.
SharedBuildingSpecs ==
    {spec \in BuildingSpecs : Get(spec, "building_area").t \in {"int", "hugeint"}}

SharedInit ==
    /\ rules \in SharedRuleSets
    /\ calls = [c \in Callers |-> NotCalled]
    /\ validation = NoResult
    /\ pc = "idle"
    /\ building_spec = <<>>
    /\ sorted_rules = <<>>
    /\ idx = 0
    /\ baseline = NewBaseline(<<>>)
    /\ applicable = NoCall
    /\ cond = <<>>
    /\ cond_spec = <<>>
    /\ cond_result = NoResult
    /\ NoSchemaCall
    /\ NoParserCall

\* evaluate(spec) of caller c up to the start of the loop
CallStart(c) ==
    /\ calls[c].pc # "loop"
    /\ \E spec \in SharedBuildingSpecs :
        calls' = [calls EXCEPT ![c] =
                    [pc |-> "loop", building_spec |-> spec,
                     sorted_rules |-> SortedByPriority(rules), idx |-> 0,
                     baseline |-> NewBaseline(spec)]]
    /\ UNCHANGED <<rules, pc, building_spec, sorted_rules, idx, baseline,
                   applicable, cond, cond_spec, cond_result, validation,
                   schema_vars, parser_vars>>

\* one iteration of the loop of evaluate of caller c
CallStep(c) ==
    /\ calls[c].pc = "loop"
    /\ calls[c].idx < Len(calls[c].sorted_rules)
    /\ LET rule == calls[c].sorted_rules[calls[c].idx + 1]
           r == evaluate_rule(rule.conditions, calls[c].building_spec)
       IN IF r.exc # ""
          THEN calls' = [calls EXCEPT ![c].pc = "raised"]
          ELSE calls' = [calls EXCEPT
                    ![c].baseline = ProcessRule(rule, r.val, LocalBaseline(calls, c)),
                    ![c].idx = @ + 1]
    /\ UNCHANGED <<rules, pc, building_spec, sorted_rules, idx, baseline,
                   applicable, cond, cond_spec, cond_result, validation,
                   schema_vars, parser_vars>>

\* return baseline of caller c
CallReturn(c) ==
    /\ calls[c].pc = "loop"
    /\ calls[c].idx = Len(calls[c].sorted_rules)
    /\ calls' = [calls EXCEPT ![c].pc = "returned"]
    /\ UNCHANGED <<rules, pc, building_spec, sorted_rules, idx, baseline,
                   applicable, cond, cond_spec, cond_result, validation,
                   schema_vars, parser_vars>>

SharedNext ==
    \E c \in Callers :
        \/ CallStart(c)
        \/ CallStep(c)
        \/ CallReturn(c)

SharedSpec == SharedInit /\ [][SharedNext]_vars

----------------------------------------------------------------------------
(* parser.py: strings and the regular expressions of the pattern tables *)

LowerCaseLetters == "abcdefghijklmnopqrstuvwxyz"

UpperCaseLetters == "ABCDEFGHIJKLMNOPQRSTUVWXYZ"

\* s[i - 1], the i-th character of the string s
CharAt(s, i) == SubSeq(s, i, i)

LowerCaseLetterSet == {CharAt(LowerCaseLetters, i) : i \in 1..26}

UpperCaseLetterSet == {CharAt(UpperCaseLetters, i) : i \in 1..26}

DigitSet == {Digits[i] : i \in 1..10}

IsLowerCaseLetter(c) == c \in LowerCaseLetterSet

IsUpperCaseLetter(c) == c \in UpperCaseLetterSet

LowerChar(c) ==
    IF IsUpperCaseLetter(c)
    THEN CharAt(LowerCaseLetters,
                CHOOSE k \in 1..26 : CharAt(UpperCaseLetters, k) = c)
    ELSE c

RECURSIVE Lower(_)
\* str.lower(), of the two halves of a string longer than one character
Lower(s) ==
    IF Len(s) <= 1 THEN LowerChar(s)
    ELSE Lower(SubSeq(s, 1, Len(s) \div 2))
            \o Lower(SubSeq(s, (Len(s) \div 2) + 1, Len(s)))

\* The characters \w of a regular expression matches.
IsWordChar(c) ==
    c \in LowerCaseLetterSet \cup UpperCaseLetterSet \cup DigitSet \cup {"_"}

\* The characters str.strip() removes and \s matches.
IsSpace(c) == c \in {" ", "\n", "\t"}

\* \b before position i of s (i = Len(s) + 1: at the end of s): exactly one
\* of the characters on the two sides is a word character.
WordBoundary(s, i) ==
    (i > 1 /\ IsWordChar(CharAt(s, i - 1)))
        # (i <= Len(s) /\ IsWordChar(CharAt(s, i)))

\* s holds the string lit from position i on.
OccursAt(lit, s, i) ==
    /\ i >= 1
    /\ i + Len(lit) - 1 <= Len(s)
    /\ SubSeq(s, i, i + Len(lit) - 1) = lit

\* The least of a set of positions that is not empty.
Least(S) == CHOOSE i \in S : \A j \in S : i <= j

\* s.find(sub) + 1: the first position of sub in s, 0 if there is none.
Find(sub, s) ==
    LET positions == {i \in 1..(Len(s) + 1) : OccursAt(sub, s, i)}
    IN IF positions = {} THEN 0 ELSE Least(positions)

\* sub in s
In(sub, s) == Find(sub, s) # 0

\* One alternative of a pattern: a literal and whether \b stands before it
\* and after it.
Word(lit) == [lit |-> lit, before |-> TRUE, after |-> TRUE]

Literal(lit) == [lit |-> lit, before |-> FALSE, after |-> FALSE]

WordEnd(lit) == [lit |-> lit, before |-> FALSE, after |-> TRUE]

\* re.search(pattern, s) finds a match, the pattern being the alternation
\* of the alternatives alts.
Search(alts, s) ==
    \E k \in 1..Len(alts) : \E i \in 1..(Len(s) + 1) :
        /\ OccursAt(alts[k].lit, s, i)
        /\ alts[k].before => WordBoundary(s, i)
        /\ alts[k].after => WordBoundary(s, i + Len(alts[k].lit))

RECURSIVE FirstMatch(_, _, _)
\* The loop over a pattern table that stops at the first pattern found in
\* s: the name of that entry, default if no pattern is found. A dict is
\* iterated in the order its keys were written.
FirstMatch(table, s, default) ==
    IF table = <<>> THEN default
    ELSE IF Search(Head(table).pattern, s) THEN Head(table).name
         ELSE FirstMatch(Tail(table), s, default)

\* RuleParser.OPERATOR_PATTERNS, in the order of the dict
OPERATOR_PATTERNS ==
    << [name |-> "equals",
        pattern |-> <<Word("equals"), Word("equal"), Word("is"), Word("=")>>],
       [name |-> "not_equals",
        pattern |-> <<Word("not equal"), Word("not equals"), Word("is not"),
                      Word("!=")>>],
       [name |-> "greater_than_or_equal",
        pattern |-> <<Word("greater than or equal"), Word(">="),
                      Word("at least")>>],
       [name |-> "less_than_or_equal",
        pattern |-> <<Word("less than or equal"), Word("<="),
                      Word("at most")>>],
       [name |-> "greater_than",
        pattern |-> <<Word("greater than"), Word(">"), Word("more than"),
                      Word("exceeds")>>],
       [name |-> "less_than",
        pattern |-> <<Word("less than"), Word("<"), Word("below")>>] >>

\* RuleParser.PROPERTY_PATTERNS, in the order of the dict; \s+ is written
\* as one blank, the strings of the model having no longer white space.
PROPERTY_PATTERNS ==
    << [name |-> "building_area", pattern |-> <<Literal("building area")>>],
       [name |-> "floor_area", pattern |-> <<Literal("floor area")>>],
       [name |-> "climate_zone", pattern |-> <<Literal("climate zone")>>],
       [name |-> "building_type", pattern |-> <<Literal("building type")>>],
       [name |-> "num_stories", pattern |-> <<Literal("number of stories")>>],
       [name |-> "lighting_power_density",
        pattern |-> <<Literal("lighting power density")>>],
       [name |-> "window_to_wall_ratio",
        pattern |-> <<Literal("window to wall ratio")>>],
       [name |-> "u_factor",
        pattern |-> <<Literal("u-factor"), Literal("ufactor")>>],
       [name |-> "r_value",
        pattern |-> <<Literal("r-value"), Literal("rvalue")>>],
       [name |-> "shgc", pattern |-> <<Literal("shgc")>>],
       [name |-> "cop", pattern |-> <<Literal("cop")>>],
       [name |-> "efficiency", pattern |-> <<Literal("efficiency")>>] >>

\* RuleParser.UNIT_PATTERNS, in the order of the dict; \s* is written as no
\* blank or one, and an optional first or last character of a pattern,
\* which never decides whether the pattern is found, is left out.
UNIT_PATTERNS ==
    << [name |-> "sqft",
        pattern |-> <<Literal("sqft"), Literal("sq.ft"), Literal("sq ft"),
                      Literal("sq. ft"), Literal("square fee")>>],
       [name |-> "sqm",
        pattern |-> <<Literal("sqm"), Literal("sq.m"), Literal("sq m"),
                      Literal("sq. m"), Literal("square meter")>>],
       [name |-> "W/sqft",
        pattern |-> <<Literal("w/sqft"), Literal("w/sq.ft"),
                      Literal("w/sq ft"), Literal("w/sq. ft"),
                      Literal("watt per square foot"),
                      Literal("watts per square foot")>>],
       [name |-> "W/sqm",
        pattern |-> <<Literal("w/sqm"), Literal("w/sq.m"), Literal("w/sq m"),
                      Literal("w/sq. m"), Literal("watt per square meter"),
                      Literal("watts per square meter")>>],
       [name |-> "degF", pattern |-> <<WordEnd("f"), Literal("fahrenheit")>>],
       [name |-> "degC", pattern |-> <<WordEnd("c"), Literal("celsius")>>],
       [name |-> "BTU", pattern |-> <<Literal("btu")>>],
       [name |-> "percent", pattern |-> <<Literal("percent"), Literal("%")>>] >>

----------------------------------------------------------------------------
(* parser.py: values *)

FloatV(n, e) == [t |-> "float", n |-> n, e |-> e]

RECURSIVE IntegerOf(_)
\* int(s) of a string of decimal digits
IntegerOf(s) ==
    IF s = "" THEN 0
    ELSE 10 * IntegerOf(SubSeq(s, 1, Len(s) - 1)) + DigitValue(CharAt(s, Len(s)))

RECURSIVE WithoutTrailingZeros(_)
WithoutTrailingZeros(s) ==
    IF s # "" /\ CharAt(s, Len(s)) = "0"
    THEN WithoutTrailingZeros(SubSeq(s, 1, Len(s) - 1))
    ELSE s

\* float(s) of digits, a point and digits: the number n / 10^e, with e the
\* number of decimals that are left without the zeros at the end.
FloatOf(s) ==
    LET point == Find(".", s)
        decimals == WithoutTrailingZeros(SubSeq(s, point + 1, Len(s)))
    IN FloatV(IntegerOf(SubSeq(s, 1, point - 1) \o decimals), Len(decimals))

\* float(value_str) if '.' in value_str else int(value_str)
NumberOfLiteral(value_str) ==
    IF In(".", value_str) THEN FloatOf(value_str)
    ELSE IntV(IntegerOf(value_str))

RECURSIVE RunEnd(_, _)
\* The position of the last digit of the run of digits that starts at
\* position i of s; i - 1 if there is no digit at i.
RunEnd(s, i) ==
    IF i <= Len(s) /\ IsDigit(CharAt(s, i)) THEN RunEnd(s, i + 1) ELSE i - 1

\* What \b(\d+(?:\.\d+)?)\b matches at position i of s, "" if nothing:
\* the whole run of digits with a point and a whole run of digits after it
\* when \b holds behind them, else the run alone when \b holds behind it.
NumberAt(s, i) ==
    IF ~(i <= Len(s) /\ IsDigit(CharAt(s, i)) /\ WordBoundary(s, i)) THEN ""
    ELSE LET j == RunEnd(s, i)
             decimals == /\ j + 2 <= Len(s)
                         /\ CharAt(s, j + 1) = "."
                         /\ IsDigit(CharAt(s, j + 2))
             k == IF decimals THEN RunEnd(s, j + 2) ELSE j
         IN IF decimals /\ WordBoundary(s, k + 1) THEN SubSeq(s, i, k)
            ELSE IF WordBoundary(s, j + 1) THEN SubSeq(s, i, j)
                 ELSE ""

\* group(1) of re.search(r'\b(\d+(?:\.\d+)?)\b', s), "" if no match
FirstNumber(s) ==
    LET positions == {i \in 1..Len(s) : NumberAt(s, i) # ""}
    IN IF positions = {} THEN "" ELSE NumberAt(s, Least(positions))

IsQuote(c) == c \in {"\"", "'"}

RECURSIVE QuotedEnd(_, _)
\* The position of the last character of the run of characters other than
\* quotes that starts at position i of s; i - 1 if there is none.
QuotedEnd(s, i) ==
    IF i <= Len(s) /\ ~IsQuote(CharAt(s, i)) THEN QuotedEnd(s, i + 1) ELSE i - 1

\* What ["\']([^"\']+)["\'] captures at position i of s, "" if no match.
QuotedAt(s, i) ==
    IF i <= Len(s) /\ IsQuote(CharAt(s, i))
       /\ QuotedEnd(s, i + 1) >= i + 1 /\ QuotedEnd(s, i + 1) < Len(s)
    THEN SubSeq(s, i + 1, QuotedEnd(s, i + 1))
    ELSE ""

\* group(1) of re.search(r'["\']([^"\']+)["\']', s), "" if no match
FirstQuoted(s) ==
    LET positions == {i \in 1..Len(s) : QuotedAt(s, i) # ""}
    IN IF positions = {} THEN "" ELSE QuotedAt(s, Least(positions))

\* What zone\s+(\d+[a-z]?) captures at position i of s, "" if no match;
\* \s+ is one blank.
ZoneAt(s, i) ==
    IF OccursAt("zone ", s, i) /\ RunEnd(s, i + 5) >= i + 5
    THEN LET j == RunEnd(s, i + 5)
         IN IF j + 1 <= Len(s) /\ IsLowerCaseLetter(CharAt(s, j + 1))
            THEN SubSeq(s, i + 5, j + 1)
            ELSE SubSeq(s, i + 5, j)
    ELSE ""

\* group(1) of re.search(r'zone\s+(\d+[a-z]?)', s), "" if no match
FirstZone(s) ==
    LET positions == {i \in 1..Len(s) : ZoneAt(s, i) # ""}
    IN IF positions = {} THEN "" ELSE ZoneAt(s, Least(positions))

ConditionValueQuotedFirst(text) ==
    LET text_lower == Lower(text)
    IN IF FirstQuoted(text) # "" THEN StrV(FirstQuoted(text))
       ELSE IF FirstNumber(text_lower) # ""
       THEN NumberOfLiteral(FirstNumber(text_lower))
       ELSE IF In("office", text_lower) THEN StrV("office")
       ELSE IF In("retail", text_lower) THEN StrV("retail")
       ELSE IF In("residential", text_lower) THEN StrV("residential")
       ELSE StrV(FirstZone(text_lower))

\* The value _parse_single_condition extracts from text.
ConditionValue(text) ==
    LET text_lower == Lower(text)
    IN IF FirstNumber(text_lower) # ""
       THEN NumberOfLiteral(FirstNumber(text_lower))
       ELSE IF FirstQuoted(text) # "" THEN StrV(FirstQuoted(text))
       ELSE IF In("office", text_lower) THEN StrV("office")
       ELSE IF In("retail", text_lower) THEN StrV("retail")
       ELSE IF In("residential", text_lower) THEN StrV("residential")
       ELSE StrV(FirstZone(text_lower))

\* The unit _parse_single_condition extracts from text_lower.
ConditionUnit(text_lower) ==
    IF FirstMatch(UNIT_PATTERNS, text_lower, "") = "" THEN NoneV
    ELSE StrV(FirstMatch(UNIT_PATTERNS, text_lower, ""))

\* RuleParser._parse_single_condition
parse_single_condition(text) ==
    ConditionWithUnit(FirstMatch(PROPERTY_PATTERNS, Lower(text), "property"),
                      FirstMatch(OPERATOR_PATTERNS, Lower(text), "equals"),
                      ConditionValue(text),
                      ConditionUnit(Lower(text)))

----------------------------------------------------------------------------
(* parser.py: segments, conditions and actions of a rule text *)

RECURSIVE Split(_, _)
\* s.split(sep)
Split(s, sep) ==
    IF ~In(sep, s) THEN <<s>>
    ELSE <<SubSeq(s, 1, Find(sep, s) - 1)>>
         \o Split(SubSeq(s, Find(sep, s) + Len(sep), Len(s)), sep)

\* s.split(sep, 1)[1], for a string s that holds sep
AfterFirst(s, sep) == SubSeq(s, Find(sep, s) + Len(sep), Len(s))

RECURSIVE Strip(_)
\* s.strip()
Strip(s) ==
    IF s # "" /\ IsSpace(Head(s)) THEN Strip(Tail(s))
    ELSE IF s # "" /\ IsSpace(CharAt(s, Len(s)))
         THEN Strip(SubSeq(s, 1, Len(s) - 1))
         ELSE s

\* The k-th least of a set of positions.
KthLeast(S, k) == CHOOSE i \in S : Cardinality({j \in S : j < i}) = k - 1

\* s.split(): the runs of characters other than white space, from the
\* positions where a run starts to those where it ends.
SplitWords(s) ==
    LET starts == {i \in 1..Len(s) :
                      /\ ~IsSpace(CharAt(s, i))
                      /\ i = 1 \/ IsSpace(CharAt(s, i - 1))}
        ends == {i \in 1..Len(s) :
                    /\ ~IsSpace(CharAt(s, i))
                    /\ i = Len(s) \/ IsSpace(CharAt(s, i + 1))}
    IN [k \in 1..Cardinality(starts) |->
            SubSeq(s, KthLeast(starts, k), KthLeast(ends, k))]

RECURSIVE Join(_, _)
\* sep.join(words)
Join(words, sep) ==
    IF words = <<>> THEN ""
    ELSE IF Len(words) = 1 THEN words[1]
         ELSE words[1] \o sep \o Join(Tail(words), sep)

parse_condition_group_and_first(text) ==
    LET text_lower == Lower(text)
        operator == IF In(" and ", text_lower) THEN "and" ELSE "or"
        separator == IF operator = "and" THEN " and " ELSE " or "
        parts == Split(text_lower, separator)
    IN ConditionGroup(operator,
            [i \in 1..Len(parts) |-> parse_single_condition(parts[i])])

\* RuleParser._parse_condition_group
RuleParser_parse_condition_group(text) ==
    LET text_lower == Lower(text)
        operator == IF In(" or ", text_lower) THEN "or" ELSE "and"
        separator == IF operator = "and" THEN " and " ELSE " or "
        parts == Split(text_lower, separator)
    IN ConditionGroup(operator,
            [i \in 1..Len(parts) |-> parse_single_condition(parts[i])])

\* The separators of _extract_conditions, in the order of its list.
ConditionSeparators == <<" then ", " set ", " apply ", " use ">>

\* The condition_text of _extract_conditions: what stands before the first
\* separator of the list that the text holds, at its first occurrence.
condition_text(text) ==
    IF \E k \in 1..Len(ConditionSeparators) : In(ConditionSeparators[k], Lower(text))
    THEN Split(Lower(text),
               ConditionSeparators[
                   CHOOSE k \in 1..Len(ConditionSeparators) :
                      /\ In(ConditionSeparators[k], Lower(text))
                      /\ \A j \in 1..(k - 1) :
                            ~In(ConditionSeparators[j], Lower(text))])[1]
    ELSE text

\* RuleParser._extract_conditions
extract_conditions(text) ==
    IF Search(<<Word("and")>>, Lower(text)) \/ Search(<<Word("or")>>, Lower(text))
    THEN RuleParser_parse_condition_group(condition_text(text))
    ELSE parse_single_condition(condition_text(text))

\* The characters of [a-z0-9_-], and of [a-z0-9_.-] with the point.
IsNameChar(c, point) ==
    IsLowerCaseLetter(c) \/ IsDigit(c) \/ c \in {"_", "-"} \/ (point /\ c = ".")

RECURSIVE NameEnd(_, _, _)
\* The position of the last character of the run of name characters that
\* starts at position i of s; i - 1 if there is none.
NameEnd(s, i, point) ==
    IF i <= Len(s) /\ IsNameChar(CharAt(s, i), point)
    THEN NameEnd(s, i + 1, point)
    ELSE i - 1

\* What (keyword)\s+([a-z0-9_-]+) captures as its name at position i of s
\* for one of the keywords, "" if no match; \s+ is one blank.
NameAt(keywords, s, i, point) ==
    IF \E w \in keywords :
          /\ OccursAt(w \o " ", s, i)
          /\ NameEnd(s, i + Len(w) + 1, point) >= i + Len(w) + 1
    THEN LET w == CHOOSE w \in keywords :
                    /\ OccursAt(w \o " ", s, i)
                    /\ NameEnd(s, i + Len(w) + 1, point) >= i + Len(w) + 1
         IN SubSeq(s, i + Len(w) + 1, NameEnd(s, i + Len(w) + 1, point))
    ELSE ""

\* The name the first match of that pattern in s captures, "" if no match.
FirstName(keywords, s, point) ==
    LET positions == {i \in 1..Len(s) : NameAt(keywords, s, i, point) # ""}
    IN IF positions = {} THEN ""
       ELSE NameAt(keywords, s, Least(positions), point)

\* The action_text of _extract_actions, for a text that holds " then " or
\* " set ": what stands behind the first " then ", or with no " then "
\* behind the first " set ".
action_text(text_lower) ==
    IF In(" then ", text_lower) THEN AfterFirst(text_lower, " then ")
    ELSE AfterFirst(text_lower, " set ")

ActionOfKeywordFirst(segment) ==
    LET target == FirstMatch(PROPERTY_PATTERNS, segment, "property")
    IN IF In("method", segment) \/ In("procedure", segment)
       THEN Action("apply_method", target,
                   StrV(FirstName({"method", "procedure"}, segment, FALSE)),
                   <<>>)
       ELSE IF In("table", segment)
       THEN Action("reference_table", target,
                   StrV(FirstName({"table"}, segment, TRUE)), <<>>)
       ELSE IF FirstNumber(segment) # ""
       THEN Action("set_value", target, NumberOfLiteral(FirstNumber(segment)),
                   <<>>)
       ELSE Action("set_value", target, StrV(""), <<>>)

\* The Action _extract_actions builds from action_text.
ActionOf(segment) ==
    LET target == FirstMatch(PROPERTY_PATTERNS, segment, "property")
    IN IF FirstNumber(segment) # ""
       THEN Action("set_value", target, NumberOfLiteral(FirstNumber(segment)),
                   <<>>)
       ELSE IF In("method", segment) \/ In("procedure", segment)
       THEN Action("apply_method", target,
                   StrV(FirstName({"method", "procedure"}, segment, FALSE)),
                   <<>>)
       ELSE IF In("table", segment)
       THEN Action("reference_table", target,
                   StrV(FirstName({"table"}, segment, TRUE)), <<>>)
       ELSE Action("set_value", target, StrV(""), <<>>)

extract_actions_without_default(text) ==
    IF In(" then ", Lower(text)) \/ In(" set ", Lower(text))
    THEN <<ActionOf(action_text(Lower(text)))>>
    ELSE <<>>

\* RuleParser._extract_actions
extract_actions(text) ==
    IF In(" then ", Lower(text)) \/ In(" set ", Lower(text))
    THEN <<ActionOf(action_text(Lower(text)))>>
    ELSE <<Action("evaluate", "compliance", StrV("check"), <<>>)>>

\* RuleParser._generate_rule_name
generate_rule_name(text) ==
    LET words == SplitWords(text)
    IN IF Len(words) > 6 THEN Join(SubSeq(words, 1, 6), " ") \o "..."
       ELSE Join(words, " ")

----------------------------------------------------------------------------
(* parser.py: parse_rule_text and parse_rules_from_text *)

RECURSIVE DecimalString(_)
\* str(n) of a natural number
DecimalString(n) ==
    IF n < 10 THEN Digits[n + 1]
    ELSE DecimalString(n \div 10) \o Digits[(n % 10) + 1]

RECURSIVE ZeroPadded(_, _)
\* The string s with zeros put before it up to the given width.
ZeroPadded(s, width) ==
    IF Len(s) >= width THEN s ELSE ZeroPadded("0" \o s, width)

\* f"rule_{n:03d}"
FormatRuleId(n) == "rule_" \o ZeroPadded(DecimalString(n), 3)

\* Mutant of CounterAfter: every call counted.
CounterAfterAnyCall(counter, rule_id) == counter + 1

\* self.rule_counter after the first statement of parse_rule_text
CounterAfter(counter, rule_id) ==
    IF rule_id = NoneV THEN counter + 1 ELSE counter

\* parse_rule_text(text, rule_id, category) on a parser whose rule_counter
\* is counter: the counter after the call and the Rule returned.
parse_rule_text(counter, text, rule_id, category) ==
    [rule_counter |-> CounterAfter(counter, rule_id),
     rule |-> Rule(IF rule_id = NoneV
                   THEN FormatRuleId(CounterAfter(counter, rule_id))
                   ELSE rule_id.s,
                   generate_rule_name(text), Strip(text), category,
                   extract_conditions(text), extract_actions(text), 0)]

RECURSIVE ParseLines(_, _, _, _)
\* The loop of parse_rules_from_text over lines: the counter after it and
\* the rules, those of the lines read so far being in acc.
ParseLines(lines, counter, category, acc) ==
    IF lines = <<>> THEN [rule_counter |-> counter, rules |-> acc]
    ELSE LET line == Strip(Head(lines))
             call == parse_rule_text(counter, line, NoneV, category)
         IN IF line # "" /\ ~OccursAt("#", line, 1)
            THEN ParseLines(Tail(lines), call.rule_counter, category,
                            Append(acc, call.rule))
            ELSE ParseLines(Tail(lines), counter, category, acc)

\* parse_rules_from_text(text, category) on a parser whose rule_counter is
\* counter: the counter after the call and the list returned.
parse_rules_from_text(counter, text, category) ==
    ParseLines(IF Len(Split(Strip(text), "\n\n")) = 1
               THEN Split(Strip(text), "\n")
               ELSE Split(Strip(text), "\n\n"),
               counter, category, <<>>)

----------------------------------------------------------------------------
(* TextSpec: parse_rule_text as a function of the rule text, called on a  *)
(* new parser                                                              *)

\* What a rule text says before its action.
ConditionPhrases ==
    {"If building area is greater than 10000 sqft",
     "If building type is office",
     "If Building Type equals 'Retail'",
     "When cop exceeds 3",
     "If floor area is at least 500 sq ft",
     "If climate zone is not zone 4a",
     "If efficiency is below 90 percent",
     "If lighting power density is less than or equal 1.5 w/sq ft",
     "If lighting power density exceeds 1.5 w/sq ft",
     "If number of stories of 'Retail' exceeds 3",
     "If u-factor >= 2",
     "If building type is office and building area is more than 5000",
     "If building type is office or building type is retail",
     "If building type is office and cop exceeds 3 or shgc is below 2",
     "For all buildings"}

\* What a rule text says from its action on.
ActionPhrases ==
    {"",
     " then set value to 1.5",
     " then set lighting power density to 1.0",
     " then apply method ashrae-90",
     " then apply procedure alt_b",
     " then follow the method of table t2",
     " then use table t6-a",
     " then set shgc",
     " THEN SET Cop to 4",
     " then set building area and cop to 4",
     " set cop to 3",
     " set efficiency to 2 then stop",
     " apply method abc",
     " use table t1",
     " apply procedure p1 then set cop to 2",
     " use the method of table t2 then report"}

\* The rule texts handed to parse_rule_text.
RuleTexts ==
    {c \o a : c \in ConditionPhrases, a \in ActionPhrases}
    \cup {"Then set cop to 3", "set cop to 3 then", "  use cop  "}

\* The rule_id arguments: None, the default, and an explicit id.
RuleIdArguments == {NoneV, StrV("custom_001")}

TextInit ==
    /\ \E text \in RuleTexts, rule_id \in RuleIdArguments :
          parsed = [call |-> "parse_rule_text", text |-> text,
                    rule_id |-> rule_id, rules |-> <<>>]
    /\ rule_counter = 0
    /\ auto_ids = <<>>
    /\ parse_calls = <<>>
    /\ rules = <<>>
    /\ pc = "idle"
    /\ building_spec = <<>>
    /\ sorted_rules = <<>>
    /\ idx = 0
    /\ baseline = <<>>
    /\ applicable = <<>>
    /\ cond = <<>>
    /\ cond_spec = <<>>
    /\ cond_result = NoResult
    /\ NoEngineCall
    /\ NoSchemaCall

\* parse_rule_text(text, rule_id) on the new parser
ParseText ==
    /\ parsed.rules = <<>>
    /\ \E call \in {parse_rule_text(rule_counter, parsed.text,
                                    parsed.rule_id, "general")} :
          /\ parsed' = [parsed EXCEPT !.rules = <<call.rule>>]
          /\ rule_counter' = call.rule_counter
          /\ auto_ids' = IF parsed.rule_id = NoneV
                          THEN Append(auto_ids, call.rule.id)
                          ELSE auto_ids
    /\ UNCHANGED <<rules, pc, building_spec, sorted_rules, idx, baseline,
                   applicable, cond, cond_spec, cond_result, validation,
                   calls, schema_vars, parse_calls>>

TextNext == ParseText

TextSpec == TextInit /\ [][TextNext]_vars

----------------------------------------------------------------------------
(* ParserSpec: one parser, parse_rule_text and parse_rules_from_text       *)
(* called on it one call after the other                                   *)

\* The lines of the documents: two rules, a comment and an empty line.
DocumentLines ==
    {"If cop exceeds 3 then set shgc to 2",
     "For office set cop to 1",
     "# comment",
     ""}

\* A comment, a rule, an empty line and a second rule.
CommentedDocument ==
    <<"# comment", "If cop exceeds 3 then set shgc to 2", "",
      "For office set cop to 1">>

\* The documents of up to n lines handed to parse_rules_from_text: those of
\* up to MaxLines lines, and CommentedDocument.
RuleDocuments(n) ==
    {Join(lines, "\n") :
        lines \in {d \in UNION {[1..k -> DocumentLines] : k \in 0..MaxLines}
                          \cup {CommentedDocument} : Len(d) <= n}}

ParserInit ==
    /\ NoParserCall
    /\ rules = <<>>
    /\ pc = "idle"
    /\ building_spec = <<>>
    /\ sorted_rules = <<>>
    /\ idx = 0
    /\ baseline = <<>>
    /\ applicable = <<>>
    /\ cond = <<>>
    /\ cond_spec = <<>>
    /\ cond_result = NoResult
    /\ NoEngineCall
    /\ NoSchemaCall

\* parse_rule_text(text, rule_id)
ParseRuleText ==
    /\ rule_counter < MaxCalls
    /\ \E text \in DocumentLines \ {"", "# comment"},
          rule_id \in RuleIdArguments :
         \E call \in {parse_rule_text(rule_counter, text, rule_id,
                                      "general")} :
            /\ parsed' = [call |-> "parse_rule_text", text |-> text,
                          rule_id |-> rule_id, rules |-> <<call.rule>>]
            /\ rule_counter' = call.rule_counter
            /\ auto_ids' = IF rule_id = NoneV
                            THEN Append(auto_ids, call.rule.id)
                            ELSE auto_ids
    /\ UNCHANGED <<rules, pc, building_spec, sorted_rules, idx, baseline,
                   applicable, cond, cond_spec, cond_result, validation,
                   calls, schema_vars, parse_calls>>

\* parse_rules_from_text(text), once per parser, on a document short enough
\* for rule_counter to stay within MaxCalls
ParseRulesFromText ==
    /\ rule_counter < MaxCalls
    /\ parsed.call # "parse_rules_from_text"
    /\ \E text \in RuleDocuments(MaxCalls - rule_counter) :
         \E call \in {parse_rules_from_text(rule_counter, text, "general")} :
            /\ parsed' = [call |-> "parse_rules_from_text", text |-> text,
                          rule_id |-> NoneV, rules |-> call.rules]
            /\ rule_counter' = call.rule_counter
            /\ auto_ids' = auto_ids \o
                    [i \in 1..Len(call.rules) |-> call.rules[i].id]
    /\ UNCHANGED <<rules, pc, building_spec, sorted_rules, idx, baseline,
                   applicable, cond, cond_spec, cond_result, validation,
                   calls, schema_vars, parse_calls>>

ParserNext ==
    \/ ParseRuleText
    \/ ParseRulesFromText

ParserSpec == ParserInit /\ [][ParserNext]_vars

----------------------------------------------------------------------------
(* InterleavedSpec: parse_rule_text called without a rule_id by concurrent *)
(* callers on one parser, the statements of the calls interleaved          *)

\* The locals of a caller that has not called parse_rule_text: the value
\* read for the increment, the rule_id, the number of calls returned, and
\* whether each call of the caller ran with no other call in progress.
NoParseCall ==
    [pc |-> "idle", text |-> "", read |-> 0, rule_id |-> "", returned |-> 0,
     serial |-> TRUE]

\* Mutant of Incremented: the counter stored as it was read.
NotIncremented(n) == n

\* self.rule_counter += 1: the value stored for the value read
Incremented(n) == n + 1

\* A call of some caller is between its first statement and its return.
InProgress(cs) == \E c \in Callers : cs[c].pc # "idle"

InterleavedInit ==
    /\ rule_counter = 0
    /\ parsed = [call |-> "none", text |-> "", rule_id |-> NoneV,
                 rules |-> <<>>]
    /\ auto_ids = <<>>
    /\ parse_calls = [c \in Callers |-> NoParseCall]
    /\ rules = <<>>
    /\ pc = "idle"
    /\ building_spec = <<>>
    /\ sorted_rules = <<>>
    /\ idx = 0
    /\ baseline = <<>>
    /\ applicable = <<>>
    /\ cond = <<>>
    /\ cond_spec = <<>>
    /\ cond_result = NoResult
    /\ NoEngineCall
    /\ NoSchemaCall

\* caller c calls parse_rule_text(text): rule_id is None
ParseCall(c) ==
    /\ parse_calls[c].pc = "idle"
    /\ parse_calls[c].returned < MaxCallsPerCaller
    /\ \E text \in DocumentLines \ {"", "# comment"} :
         parse_calls' =
            [d \in Callers |->
                IF d = c
                THEN [parse_calls[c] EXCEPT
                        !.pc = "read", !.text = text,
                        !.serial = @ /\ ~InProgress(parse_calls)]
                ELSE [parse_calls[d] EXCEPT
                        !.serial = @ /\ parse_calls[d].pc = "idle"]]
    /\ UNCHANGED <<rule_counter, parsed, auto_ids>>
    /\ UNCHANGED <<rules, pc, building_spec, sorted_rules, idx, baseline,
                   applicable, cond, cond_spec, cond_result, validation,
                   calls, schema_vars>>

\* self.rule_counter += 1 of caller c: the counter is read
ReadCounter(c) ==
    /\ parse_calls[c].pc = "read"
    /\ parse_calls' = [parse_calls EXCEPT ![c].pc = "store",
                                          ![c].read = rule_counter]
    /\ UNCHANGED <<rule_counter, parsed, auto_ids>>
    /\ UNCHANGED <<rules, pc, building_spec, sorted_rules, idx, baseline,
                   applicable, cond, cond_spec, cond_result, validation,
                   calls, schema_vars>>

\* self.rule_counter += 1 of caller c: the sum is stored
StoreCounter(c) ==
    /\ parse_calls[c].pc = "store"
    /\ rule_counter' = Incremented(parse_calls[c].read)
    /\ parse_calls' = [parse_calls EXCEPT ![c].pc = "format"]
    /\ UNCHANGED <<parsed, auto_ids>>
    /\ UNCHANGED <<rules, pc, building_spec, sorted_rules, idx, baseline,
                   applicable, cond, cond_spec, cond_result, validation,
                   calls, schema_vars>>

\* rule_id = f"rule_{self.rule_counter:03d}" of caller c
FormatId(c) ==
    /\ parse_calls[c].pc = "format"
    /\ parse_calls' = [parse_calls EXCEPT
                            ![c].pc = "extract",
                            ![c].rule_id = FormatRuleId(rule_counter)]
    /\ UNCHANGED <<rule_counter, parsed, auto_ids>>
    /\ UNCHANGED <<rules, pc, building_spec, sorted_rules, idx, baseline,
                   applicable, cond, cond_spec, cond_result, validation,
                   calls, schema_vars>>

\* the rest of parse_rule_text of caller c, up to its return
ParseReturn(c) ==
    /\ parse_calls[c].pc = "extract"
    /\ \E rule \in {Rule(parse_calls[c].rule_id,
                          generate_rule_name(parse_calls[c].text),
                          Strip(parse_calls[c].text), "general",
                          extract_conditions(parse_calls[c].text),
                          extract_actions(parse_calls[c].text), 0)} :
         parsed' = [call |-> "parse_rule_text", text |-> parse_calls[c].text,
                    rule_id |-> NoneV, rules |-> <<rule>>]
    /\ auto_ids' = Append(auto_ids, parse_calls[c].rule_id)
    /\ parse_calls' = [parse_calls EXCEPT ![c].pc = "idle",
                                          ![c].returned = @ + 1]
    /\ UNCHANGED rule_counter
    /\ UNCHANGED <<rules, pc, building_spec, sorted_rules, idx, baseline,
                   applicable, cond, cond_spec, cond_result, validation,
                   calls, schema_vars>>

InterleavedNext ==
    \E c \in Callers :
        \/ ParseCall(c)
        \/ ReadCounter(c)
        \/ StoreCounter(c)
        \/ FormatId(c)
        \/ ParseReturn(c)

InterleavedSpec == InterleavedInit /\ [][InterleavedNext]_vars

----------------------------------------------------------------------------
(* SchemaSpec: a RuleSchema serialized, the document perhaps edited on its *)
(* way, and deserialized                                                   *)

sqft == "sqft"

\* The rules of the serialized schemas: a Condition without a unit, with a
\* unit and with the empty string as unit, a list value, nested groups, an
\* empty group; no, one and two actions, with and without parameters;
\* priorities 0 and not 0; with and without metadata.
SchemaRules ==
    << [Rule("r001", "Office LPD", "A test rule", "lighting",
             Condition("building_type", "equals", StrV(office)),
             <<Action("set_value", "lighting_power_density", IntV(1),
                      NoParameters)>>, 0)
            EXCEPT !.metadata = [source |-> StrV(office)]],
       Rule("r002", "Large building", "A test rule", "lighting",
            ConditionWithUnit("building_area", "greater_than", IntV(10),
                              StrV(sqft)),
            <<Action("apply_method", "cooling_cop", StrV(office),
                     [zone |-> IntV(5)]),
              Action("reference_table", "cooling_cop", StrV(retail),
                     NoParameters)>>, 10),
       Rule("r003", "Small building", "A test rule", "lighting",
            ConditionWithUnit("building_area", "less_than", IntV(10),
                              StrV("")),
            <<>>, 5),
       Rule("r004", "Nested", "A test rule", "hvac",
            ConditionGroup("and",
                <<Condition("building_type", "in",
                            ListV(<<StrV(office), StrV(retail)>>)),
                  ConditionGroup("not",
                    <<ConditionWithUnit("building_area", "less_than_or_equal",
                                        IntV(15), StrV(sqft))>>)>>),
            <<Action("set_value", "cooling_cop", IntV(3), NoParameters)>>, 0),
       Rule("r005", "Always", "A test rule", "envelope",
            ConditionGroup("or", <<>>),
            <<Action("evaluate", "compliance", StrV(fifteen),
                     NoParameters)>>, 10),
       [Rule("r006", "Sourced", "A test rule", "general",
             Condition("building_type", "not_equals", StrV(retail)),
             <<Action("set_value", "cooling_cop", IntV(3), NoParameters)>>, 0)
          EXCEPT !.metadata = [source |-> StrV(office)]] >>

\* The serialized schemas: up to MaxSchemaRules of the rules, in any order,
\* with and without schema metadata.
Schemas ==
    {RuleSchema("1.0", [i \in DOMAIN choice |-> SchemaRules[choice[i]]], md) :
        choice \in UNION {[1..n -> 1..Len(SchemaRules)] : n \in 0..MaxSchemaRules},
        md \in {<<>>, [author |-> StrV(retail)]}}

\* Operator literals outside the enumeration a node is read against.
ForeignOperators(node) ==
    IF IsGroupData(node) THEN {"xor", "equals"} ELSE {"matches", "and"}

RECURSIVE EditedConditions(_)
\* A conditions node with one key taken out or one operator literal
\* replaced, in the node or in one node below it.
EditedConditions(node) ==
    {WithoutKey(node, k) : k \in DOMAIN node}
    \cup (IF "operator" \in DOMAIN node
          THEN {[node EXCEPT !.operator = op] : op \in ForeignOperators(node)}
          ELSE {})
    \cup (IF IsGroupData(node)
          THEN UNION {{[node EXCEPT !.conditions[i] = e] :
                            e \in EditedConditions(node.conditions[i])} :
                      i \in 1..Len(node.conditions)}
          ELSE {})

\* A rule document with one such edit in it.
EditedRules(rule_data) ==
    {WithoutKey(rule_data, k) : k \in DOMAIN rule_data}
    \cup {[rule_data EXCEPT !.conditions = e] :
            e \in EditedConditions(rule_data.conditions)}
    \cup UNION {{[rule_data EXCEPT !.actions[i] = WithoutKey(@, k)] :
                    k \in DOMAIN rule_data.actions[i]} :
                i \in 1..Len(rule_data.actions)}

\* A schema document with one such edit in it.
EditedDocuments(data) ==
    {WithoutKey(data, k) : k \in DOMAIN data}
    \cup UNION {{[data EXCEPT !.rules[i] = e] : e \in EditedRules(data.rules[i])} :
                i \in 1..Len(data.rules)}

SchemaInit ==
    /\ schema \in Schemas
    /\ document = <<>>
    /\ loaded = NoResult
    /\ rules = <<>>
    /\ pc = "idle"
    /\ building_spec = <<>>
    /\ sorted_rules = <<>>
    /\ idx = 0
    /\ baseline = <<>>
    /\ applicable = <<>>
    /\ cond = <<>>
    /\ cond_spec = <<>>
    /\ cond_result = NoResult
    /\ NoEngineCall
    /\ NoParserCall

\* schema.to_dict()
ToDict ==
    /\ document = <<>>
    /\ document' = to_dict(schema)
    /\ UNCHANGED <<schema, loaded>>
    /\ UNCHANGED <<rules, pc, building_spec, sorted_rules, idx, baseline,
                   applicable, cond, cond_spec, cond_result, validation,
                   calls, parser_vars>>

\* The document is stored as a file and one key or operator of it is
\* edited before it is loaded again.
EditDocument ==
    /\ document = to_dict(schema)
    /\ loaded = NoResult
    /\ document' \in EditedDocuments(document)
    /\ UNCHANGED <<schema, loaded>>
    /\ UNCHANGED <<rules, pc, building_spec, sorted_rules, idx, baseline,
                   applicable, cond, cond_spec, cond_result, validation,
                   calls, parser_vars>>

\* RuleSchema.from_dict(document)
FromDict ==
    /\ document # <<>>
    /\ loaded = NoResult
    /\ loaded' = from_dict(document)
    /\ UNCHANGED <<schema, document>>
    /\ UNCHANGED <<rules, pc, building_spec, sorted_rules, idx, baseline,
                   applicable, cond, cond_spec, cond_result, validation,
                   calls, parser_vars>>

SchemaNext ==
    \/ ToDict
    \/ EditDocument
    \/ FromDict

SchemaSpec == SchemaInit /\ [][SchemaNext]_vars

----------------------------------------------------------------------------
(* Properties of evaluate: ordering and last write *)

\* The position at which the rule at schema position i is processed: behind
\* every rule of higher priority and every earlier rule of equal priority.
Rank(i) ==
    1 + Cardinality({j \in 1..Len(rules) :
                        \/ rules[j].priority > rules[i].priority
                        \/ rules[j].priority = rules[i].priority /\ j < i})

\* The schema position of the rule processed k-th.
RuleAt(k) == CHOOSE i \in 1..Len(rules) : Rank(i) = k

\* C1: evaluate logs the rules in non-increasing priority order, rules of
\* equal priority in schema order: the k-th log entry is the entry of the
\* rule of rank k, the log grows by one entry per rule processed, and the
\* log of a returned document has an entry for every rule.
C1_LogInPriorityOrder ==
    LET log == baseline.evaluation_log
    IN /\ Len(log) = idx
       /\ \A i \in 1..Len(rules) :
            Rank(i) <= Len(log) => log[Rank(i)].rule_id = rules[i].id
       /\ \A k \in 1..(Len(log) - 1) :
            rules[RuleAt(k)].priority >= rules[RuleAt(k + 1)].priority
       /\ pc = "returned" => Len(log) = Len(rules)

\* Priorities [5, 10, 5] are logged as rule@10, first rule@5, second rule@5.
C1_Witness ==
    /\ pc = "returned"
    /\ Len(rules) = 3
    /\ <<rules[1].priority, rules[2].priority, rules[3].priority>> = <<5, 10, 5>>
    /\ [k \in 1..3 |-> baseline.evaluation_log[k].rule_id]
            = <<rules[2].id, rules[1].id, rules[3].id>>

\* Whether the rule at schema position i matches the spec of the call.
Matches(i, spec) == evaluate_rule(rules[i].conditions, spec) = Ok(TRUE)

\* The positions in actions of the actions on target t.
ActionsOn(actions, t) == {k \in 1..Len(actions) : actions[k].target = t}

Max(S) == CHOOSE x \in S : \A y \in S : y <= x

Targets == {"lighting_power_density", "cooling_cop", "compliance"}

\* The matched rules with an action on target t.
WritersOf(t) ==
    {i \in 1..Len(rules) :
        Matches(i, building_spec) /\ ActionsOn(rules[i].actions, t) # {}}

\* C2: in the returned document a target written by matched rules holds the
\* value of the last action on it of the matched rule processed last (the
\* lowest priority, the later in the schema among equals), and a target no
\* matched rule writes is absent.
C2_LastWriteWins ==
    pc = "returned" =>
        \A t \in Targets :
            IF WritersOf(t) = {}
            THEN t \notin DOMAIN baseline.baseline_properties
            ELSE LET w == CHOOSE i \in WritersOf(t) :
                            \A j \in WritersOf(t) : Rank(j) <= Rank(i)
                     k == Max(ActionsOn(rules[w].actions, t))
                 IN /\ t \in DOMAIN baseline.baseline_properties
                    /\ baseline.baseline_properties[t]
                            = StoredValue(rules[w].actions[k])

\* Two matched rules of priorities 10 and 5 set the same target to different
\* values, and the returned value is the one of the priority-5 rule.
C2_Witness ==
    /\ pc = "returned"
    /\ \E i, j \in 1..Len(rules) :
        /\ rules[i].priority = 10 /\ rules[j].priority = 5
        /\ WritersOf("lighting_power_density") = {i, j}
        /\ baseline.baseline_properties["lighting_power_density"]
                = rules[j].actions[1].value
        /\ baseline.baseline_properties["lighting_power_density"]
                # rules[i].actions[1].value
        /\ rules[i].actions[1].action_type = "set_value"
        /\ rules[j].actions[1].action_type = "set_value"
        /\ Len(rules[j].actions) = 1

----------------------------------------------------------------------------
(* Properties of condition evaluation, under CondSpec *)

RECURSIVE Subtrees(_)
\* The nodes of a condition tree.
Subtrees(c) ==
    {c} \cup (IF c.kind = "ConditionGroup"
              THEN UNION {Subtrees(c.conditions[i]) : i \in 1..Len(c.conditions)}
              ELSE {})

\* The outcome of evaluating node g of the tree handed to evaluate_rule.
OutcomeOf(g) == IF g = cond THEN cond_result ELSE evaluate_rule(g, cond_spec)

\* C4: at every depth of a condition tree, an AND group is true iff every
\* child evaluates true, an OR group iff some child does, a NOT group iff
\* no child does (whenever the evaluation of the group completes).
C4_GroupSemantics ==
    cond_result # NoResult =>
        \A g \in Subtrees(cond) :
            (g.kind = "ConditionGroup" /\ OutcomeOf(g).exc = "") =>
                LET n == Len(g.conditions)
                    true(i) == evaluate_rule(g.conditions[i], cond_spec) = Ok(TRUE)
                IN /\ g.operator = "and" =>
                        (OutcomeOf(g).val <=> \A i \in 1..n : true(i))
                   /\ g.operator = "or" =>
                        (OutcomeOf(g).val <=> \E i \in 1..n : true(i))
                   /\ g.operator = "not" =>
                        (OutcomeOf(g).val <=> ~(\E i \in 1..n : true(i)))

\* NOT over [AND over nothing, a false leaf], children evaluating to
\* [true, false], is false.
C4_Witness ==
    /\ cond = ConditionGroup("not",
                <<ConditionGroup("and", <<>>),
                  Condition("building_area", "greater_than", IntV(10))>>)
    /\ cond_spec = [building_type |-> StrV(office), building_area |-> IntV(5)]
    /\ cond_result = Ok(FALSE)

\* C5: a Condition on a field the spec does not hold evaluates to false,
\* whatever its operator, and raises nothing.
C5_AbsentFieldIsFalse ==
    (/\ cond_result # NoResult
     /\ cond.kind = "Condition"
     /\ cond.field \notin DOMAIN cond_spec) => cond_result = Ok(FALSE)

C5_Witness ==
    /\ cond.kind = "Condition"
    /\ cond.operator = "not_equals"
    /\ cond.field \notin DOMAIN cond_spec
    /\ cond_result = Ok(FALSE)

OrderingOperators ==
    {"greater_than", "less_than", "greater_than_or_equal", "less_than_or_equal"}

\* Whether a value is a number or the decimal text of one.
IsNumeric(v) ==
    \/ v.t = "int"
    \/ v.t = "str" /\ ParseFloat(v.s).exc = ""

NumberOf(v) == IF v.t = "int" THEN v.n ELSE ParseFloat(v.s).val

\* C6: an ordering comparison of two operands that are numbers compares
\* them numerically, and with an operand that cannot be made a number it is
\* false and raises nothing.
C6_NumericComparison ==
    (/\ cond_result # NoResult
     /\ cond.kind = "Condition"
     /\ cond.operator \in OrderingOperators
     /\ cond.field \in DOMAIN cond_spec) =>
        LET a == cond_spec[cond.field]
            b == cond.value
        IN IF IsNumeric(a) /\ IsNumeric(b)
           THEN cond_result =
                    Ok(CASE cond.operator = "greater_than" -> NumberOf(a) > NumberOf(b)
                         [] cond.operator = "less_than" -> NumberOf(a) < NumberOf(b)
                         [] cond.operator = "greater_than_or_equal" ->
                                NumberOf(a) >= NumberOf(b)
                         [] cond.operator = "less_than_or_equal" ->
                                NumberOf(a) <= NumberOf(b))
           ELSE cond_result = Ok(FALSE)

\* Whether the spec value of the condition's field is an element of the
\* condition's list.
IsElement == \E i \in 1..Len(cond.value.l) : cond.value.l[i] = cond_spec[cond.field]

ListMembershipCase ==
    /\ cond_result # NoResult
    /\ cond.kind = "Condition"
    /\ cond.operator \in {"in", "not_in"}
    /\ cond.value.t = "list"
    /\ cond.field \in DOMAIN cond_spec

\* C7 as claimed: for a field present in the spec and a list-valued condition
\* value, IN is true iff the spec value is an element of the list, and NOT_IN
\* is the negation of IN.
C7_ListMembership ==
    ListMembershipCase =>
        /\ cond.operator = "in" => cond_result = Ok(IsElement)
        /\ cond.operator = "not_in" =>
            /\ cond_result = Ok(~IsElement)
            /\ cond_result.val =
                    ~evaluate_condition([cond EXCEPT !.operator = "in"], cond_spec).val

\* C7 as amended: the same for a field present with a value other than None.
C7_ListMembershipOfNonNull ==
    (ListMembershipCase /\ cond_spec[cond.field] # NoneV) =>
        /\ cond.operator = "in" => cond_result = Ok(IsElement)
        /\ cond.operator = "not_in" =>
            /\ cond_result = Ok(~IsElement)
            /\ cond_result.val =
                    ~evaluate_condition([cond EXCEPT !.operator = "in"], cond_spec).val

\* NOT_IN is true of a value that is not in a non-empty list.
C7_Witness ==
    /\ ListMembershipCase
    /\ cond.operator = "not_in"
    /\ cond.value = ListV(<<StrV(office), IntV(15)>>)
    /\ cond_spec[cond.field] = IntV(5)
    /\ cond_result = Ok(TRUE)

----------------------------------------------------------------------------
(* Properties of evaluate: completion, actions, matched rules only *)

\* The schema positions of the rules the loop has processed.
Processed == {i \in 1..Len(rules) : Rank(i) <= idx}

\* C3: evaluate never raises, and a returned document logs every rule once,
\* "matched" exactly when its condition tree evaluates true, with
\* matched_rules the matched rules in the order of the log.
C3_EvaluateCompletes ==
    /\ pc # "raised"
    /\ pc = "returned" =>
        LET log == baseline.evaluation_log
            hits == {k \in 1..Len(log) : log[k].status = "matched"}
        IN /\ Len(log) = Len(rules)
           /\ \A k \in 1..Len(log) :
                /\ log[k].rule_id = rules[RuleAt(k)].id
                /\ log[k].status =
                        IF Matches(RuleAt(k), building_spec)
                        THEN "matched" ELSE "not_matched"
           /\ Len(baseline.matched_rules) = Cardinality(hits)
           /\ \A k \in hits :
                baseline.matched_rules[Cardinality({h \in hits : h <= k})].rule_id
                    = log[k].rule_id

\* What the claim has an action store under its target.
Expected(a) ==
    IF a.action_type \in {"set_value", "evaluate"} THEN a.value
    ELSE IF a.action_type = "apply_method"
         THEN [method |-> a.value, parameters |-> a.parameters]
    ELSE IF a.action_type = "reference_table"
         THEN [table |-> a.value, parameters |-> a.parameters]
    ELSE [action_type |-> a.action_type, value |-> a.value,
          parameters |-> a.parameters]

\* C8: the loop pass over a matched rule leaves every target of its actions
\* holding what the last action on that target stores (the value itself for
\* set_value and evaluate, a method or table record for apply_method and
\* reference_table, the generic record for any other action_type) and every
\* other target as it was.
C8_ActionsStore ==
    [][(pc = "loop" /\ idx' = idx + 1
            /\ Matches(RuleAt(idx + 1), building_spec)) =>
        LET actions == rules[RuleAt(idx + 1)].actions
            old == baseline.baseline_properties
            new == baseline'.baseline_properties
        IN \A t \in Targets :
            IF ActionsOn(actions, t) = {}
            THEN /\ t \in DOMAIN new <=> t \in DOMAIN old
                 /\ t \in DOMAIN old => new[t] = old[t]
            ELSE /\ t \in DOMAIN new
                 /\ new[t] = Expected(actions[Max(ActionsOn(actions, t))])
      ]_vars

\* A returned document holding a generic record and a method record.
C8_Witness ==
    /\ pc = "returned"
    /\ DOMAIN baseline.baseline_properties
            = {"lighting_power_density", "cooling_cop"}
    /\ baseline.baseline_properties["lighting_power_density"]
            = [action_type |-> "scale", value |-> IntV(3),
               parameters |-> NoParameters]
    /\ baseline.baseline_properties["cooling_cop"]
            = [method |-> StrV(office), parameters |-> [zone |-> IntV(5)]]

\* C9: at every point of an evaluate call the keys of baseline_properties
\* are exactly the targets of the actions of the matched rules processed so
\* far.
C9_OnlyMatchedRulesWrite ==
    DOMAIN baseline.baseline_properties =
        UNION {{rules[i].actions[k].target : k \in 1..Len(rules[i].actions)} :
                i \in {j \in Processed : Matches(j, building_spec)}}

\* A returned document of a call in which a rule matched and another did
\* not, without the targets only the unmatched rule writes.
C9_Witness ==
    /\ pc = "returned"
    /\ baseline.baseline_properties # <<>>
    /\ \E i \in 1..Len(rules) :
        /\ ~Matches(i, building_spec)
        /\ \E k \in 1..Len(rules[i].actions) :
            rules[i].actions[k].target \notin DOMAIN baseline.baseline_properties

\* The schema positions of the rules matching the spec of the query.
ApplicablePositions == {i \in 1..Len(rules) : Matches(i, applicable.spec)}

\* C10: get_applicable_rules returns the matching rules in schema order,
\* and the call changes neither the rule list nor anything of an evaluate
\* call.
C10_ApplicableRulesQuery ==
    /\ [](applicable.result.exc = "" =>
            /\ Len(applicable.result.val) = Cardinality(ApplicablePositions)
            /\ \A i \in ApplicablePositions :
                applicable.result.val[
                    Cardinality({j \in ApplicablePositions : j <= i})] = rules[i])
    /\ [][applicable' # applicable =>
            UNCHANGED <<rules, pc, building_spec, sorted_rules, idx, baseline>>
         ]_vars

\* Two rules returned in schema order against their priorities, a third
\* rule left out.
C10_Witness ==
    /\ applicable.result.exc = ""
    /\ Len(rules) = 3
    /\ \E i, j \in 1..3 :
        /\ i < j
        /\ rules[i].priority < rules[j].priority
        /\ applicable.result.val = <<rules[i], rules[j]>>

----------------------------------------------------------------------------
(* Properties of validate_building_spec *)

\* The fields of the leaves of the condition trees of the rules.
ReferencedFields ==
    {c.field : c \in {n \in UNION {Subtrees(rules[i].conditions) :
                                        i \in 1..Len(rules)} :
                        n.kind = "Condition"}}

\* How many of the warnings of the last validation are about field f.
WarningsAbout(f) ==
    Cardinality({k \in 1..Len(validation.result.warnings) :
                    validation.result.warnings[k] = <<"Missing field: ", f>>})

\* C11: validate_building_spec always returns valid = true and no errors,
\* and its warnings are exactly one "Missing field" entry for each distinct
\* field that some leaf of some rule's condition tree, at any depth, refers
\* to and that is not a key of the spec, and nothing else.
C11_ValidationWarnings ==
    validation # NoResult =>
        /\ validation.result.valid = TRUE
        /\ validation.result.errors = <<>>
        /\ \A f \in ReferencedFields :
              WarningsAbout(f) = IF f \in DOMAIN validation.spec THEN 0 ELSE 1
        /\ \A k \in 1..Len(validation.result.warnings) :
              \E f \in ReferencedFields :
                 validation.result.warnings[k] = <<"Missing field: ", f>>

\* A one-rule engine whose tree has building_area in a group inside the
\* root and refers to building_type too, validated against a spec that
\* has building_type alone: one warning.
C11_Witness ==
    /\ validation # NoResult
    /\ Len(rules) = 1
    /\ \E g \in Subtrees(rules[1].conditions) :
          /\ g.kind = "ConditionGroup"
          /\ g # rules[1].conditions
          /\ \E k \in 1..Len(g.conditions) :
                /\ g.conditions[k].kind = "Condition"
                /\ g.conditions[k].field = "building_area"
    /\ DOMAIN validation.spec = {"building_type"}
    /\ "building_type" \in ReferencedFields
    /\ Len(validation.result.warnings) = 1

----------------------------------------------------------------------------
(* Properties of evaluate under repeated and concurrent calls *)

RECURSIVE DocumentAfter(_, _, _)
\* The document that processing the rules rs in turn, with nothing else
\* running, makes of doc.
DocumentAfter(rs, spec, doc) ==
    IF rs = <<>> THEN doc
    ELSE DocumentAfter(Tail(rs), spec,
            ProcessRule(Head(rs),
                        evaluate_rule(Head(rs).conditions, spec).val, doc))

\* C12: the document an evaluate call returns is a function of the rule set
\* and the building spec alone: whatever calls the same caller made before
\* and however the steps of another caller's call on the same schema were
\* interleaved with it, it is the document a call running alone computes.
C12_DocumentDependsOnRulesAndSpec ==
    \A c \in DOMAIN calls :
        calls[c].pc = "returned" =>
            calls[c].baseline =
                DocumentAfter(SortedByPriority(rules), calls[c].building_spec,
                              NewBaseline(calls[c].building_spec))

\* caller2 returns from a second call, on the office spec, that wrote a
\* property, while caller1 is in the middle of a call on the retail spec
\* that has already written one.
C12_Witness ==
    /\ calls # <<>>
    /\ calls["caller2"].pc = "returned"
    /\ Get(calls["caller2"].building_spec, "building_type") = StrV(office)
    /\ calls["caller2"].baseline.baseline_properties # <<>>
    /\ calls["caller1"].pc = "loop"
    /\ calls["caller1"].idx = 1
    /\ calls["caller1"].idx < Len(calls["caller1"].sorted_rules)
    /\ Get(calls["caller1"].building_spec, "building_type") = StrV(retail)
    /\ calls["caller1"].baseline.baseline_properties # <<>>

----------------------------------------------------------------------------
(* What the engine leaves alone *)

\* C13: evaluate (and so generate_baseline), get_applicable_rules and
\* validate_building_spec never change the rule list the engine shares with
\* its RuleSchema, neither its order nor any rule in it, and never change
\* the building spec they were given: the document evaluate returns still
\* holds the spec as supplied, and the priority sort leaves the list alone.
C13_EngineLeavesInputsUnchanged ==
    /\ [](pc = "returned" => baseline.input = building_spec)
    /\ [][/\ rules' = rules
          /\ pc = "loop" => building_spec' = building_spec]_vars

\* evaluate has returned on an engine whose rules the sort had to reorder.
C13_Witness ==
    /\ pc = "returned"
    /\ sorted_rules # rules
    /\ baseline.matched_rules # <<>>

----------------------------------------------------------------------------
(* Properties of serialization *)

\* The Conditions of the rules of the schema.
SchemaLeaves ==
    {n \in UNION {Subtrees(schema.rules[i].conditions) :
                    i \in 1..Len(schema.rules)} : n.kind = "Condition"}

\* from_dict has been called on the document to_dict gave.
RoundTripDone == loaded.exc # "unset" /\ document = to_dict(schema)

\* C14, as stated: for every schema of the data model, from_dict of its
\* to_dict returns a schema equal to it in version, metadata, rule order,
\* rule scalars, condition trees with their units, and actions.
C14_RoundTrip ==
    RoundTripDone => loaded.exc = "" /\ loaded.val = schema

\* C14, amended: the same for every schema none of whose Conditions has the
\* empty string as its unit.
C14_RoundTripOfNonEmptyUnits ==
    (RoundTripDone /\ \A c \in SchemaLeaves : c.unit # StrV("")) =>
        loaded.exc = "" /\ loaded.val = schema

\* A schema with metadata and two rules, one of a nested group with a unit
\* in its inner Condition, one with action parameters and a priority other
\* than 0, has gone through to_dict and from_dict.
C14_Witness ==
    /\ RoundTripDone
    /\ schema.metadata # <<>>
    /\ Len(schema.rules) = 2
    /\ schema.rules[1] = SchemaRules[4]
    /\ schema.rules[2] = SchemaRules[2]
    /\ \E c \in SchemaLeaves : c.unit = StrV(sqft)

RequiredSchemaKeys == {"version", "rules"}

RequiredRuleKeys ==
    {"id", "name", "description", "category", "conditions", "actions"}

RequiredConditionKeys == {"field", "operator", "value"}

RequiredActionKeys == {"action_type", "target", "value"}

RECURSIVE WellFormedConditions(_)
\* A conditions node of the generic-map representation: a group with a
\* logical operator literal and well-formed members, or else a condition
\* with its required keys and a comparison operator literal.
WellFormedConditions(node) ==
    IF IsGroupData(node)
    THEN /\ node.operator \in LogicalOperator
         /\ \A i \in 1..Len(node.conditions) :
                WellFormedConditions(node.conditions[i])
    ELSE /\ RequiredConditionKeys \subseteq DOMAIN node
         /\ node.operator \in ComparisonOperator

WellFormedRule(rule_data) ==
    /\ RequiredRuleKeys \subseteq DOMAIN rule_data
    /\ WellFormedConditions(rule_data.conditions)
    /\ \A i \in 1..Len(rule_data.actions) :
          RequiredActionKeys \subseteq DOMAIN rule_data.actions[i]

WellFormedDocument(data) ==
    /\ RequiredSchemaKeys \subseteq DOMAIN data
    /\ \A i \in 1..Len(data.rules) : WellFormedRule(data.rules[i])

\* C15: from_dict raises, and returns no schema, on every document that
\* lacks a required key (version, rules; id, name, description, category,
\* conditions, actions of a rule; field, operator, value of a condition;
\* action_type, target, value of an action) or holds a comparison or
\* logical operator literal outside the enumerations.
C15_MalformedDocumentFails ==
    (loaded.exc # "unset" /\ ~WellFormedDocument(document)) => loaded.exc # ""

----------------------------------------------------------------------------
(* Rule ids of one parser                                                  *)

\* rule_<k> zero-padded to 3 digits, for the k a parser of ParserSpec reaches
ExpectedRuleId ==
    <<"rule_001", "rule_002", "rule_003", "rule_004", "rule_005",
      "rule_006", "rule_007", "rule_008", "rule_009">>

\* C16: on one parser, the k-th parse_rule_text call made without an
\* explicit id (the calls parse_rules_from_text makes included) returns the id
\* rule_<k> zero-padded to 3 digits, counting from 1; a call given an explicit
\* id returns that id and consumes no number, the counter being the number
\* of ids generated so far.
C16_SequentialRuleIds ==
    /\ rule_counter = Len(auto_ids)
    /\ \A k \in 1..Len(auto_ids) : auto_ids[k] = ExpectedRuleId[k]
    /\ \A j, k \in 1..Len(auto_ids) : j # k => auto_ids[j] # auto_ids[k]
    /\ (parsed.call = "parse_rule_text" /\ parsed.rule_id # NoneV)
          => parsed.rules[1].id = parsed.rule_id.s

\* Two ids have been generated, and the call after them was given the id
\* custom_001 and returned a rule with it.
C16_Witness ==
    /\ auto_ids = <<"rule_001", "rule_002">>
    /\ rule_counter = 2
    /\ parsed.call = "parse_rule_text"
    /\ parsed.rule_id = StrV("custom_001")
    /\ parsed.rules[1].id = "custom_001"

----------------------------------------------------------------------------
(* Rules of a document                                                     *)

\* The lines of text without the white space around them, those that are
\* empty or begin with "#" left out.
RuleLines(text) ==
    LET lines == Split(text, "\n")
    IN SelectSeq([i \in 1..Len(lines) |-> Strip(lines[i])],
                 LAMBDA line : line # "" /\ ~OccursAt("#", line, 1))

\* C17: parse_rules_from_text returns exactly one Rule for each line of the
\* text that is neither blank nor begins with "#", in the order of the
\* lines, with ids that follow one another.
C17_OneRulePerLine ==
    parsed.call = "parse_rules_from_text" =>
        /\ Len(parsed.rules) = Len(RuleLines(parsed.text))
        /\ \A i \in 1..Len(parsed.rules) :
              /\ parsed.rules[i].description = RuleLines(parsed.text)[i]
              /\ parsed.rules[i].id
                    = ExpectedRuleId[rule_counter - Len(parsed.rules) + i]

----------------------------------------------------------------------------
(* Operators of parsed conditions                                          *)

\* The phrasings with "is" and a comparison after it, the longer before the
\* shorter ones they hold, with the operator each of them names.
SpecificPhrasings ==
    << [phrase |-> " is greater than or equal", name |-> "greater_than_or_equal"],
       [phrase |-> " is less than or equal", name |-> "less_than_or_equal"],
       [phrase |-> " is greater than", name |-> "greater_than"],
       [phrase |-> " is more than", name |-> "greater_than"],
       [phrase |-> " is less than", name |-> "less_than"],
       [phrase |-> " is below", name |-> "less_than"],
       [phrase |-> " is at least", name |-> "greater_than_or_equal"],
       [phrase |-> " is at most", name |-> "less_than_or_equal"],
       [phrase |-> " is not", name |-> "not_equals"] >>

\* The text holds one of the phrasings.
HasSpecificPhrasing(text) ==
    \E k \in 1..Len(SpecificPhrasings) :
        In(SpecificPhrasings[k].phrase, Lower(text))

\* The operator of the first of the phrasings the text holds.
SpecificOperator(text) ==
    SpecificPhrasings[
        CHOOSE k \in 1..Len(SpecificPhrasings) :
            /\ In(SpecificPhrasings[k].phrase, Lower(text))
            /\ \A j \in 1..(k - 1) :
                  ~In(SpecificPhrasings[j].phrase, Lower(text))].name

\* C18: a rule text with one condition that holds a comparison phrasing
\* together with the shorter "is" is parsed to the operator of the
\* phrasing, the longer phrasings going before the shorter; "If building
\* area is greater than 10000 sqft then set value to 1.5" is parsed to
\* Condition(building_area, GREATER_THAN, 10000, sqft).
C18_SpecificOperatorFirst ==
    (parsed.call = "parse_rule_text" /\ parsed.rules # <<>>) =>
        LET conditions == parsed.rules[1].conditions
        IN /\ (conditions.kind = "Condition"
                  /\ HasSpecificPhrasing(parsed.text))
                 => conditions.operator = SpecificOperator(parsed.text)
           /\ parsed.text = "If building area is greater than 10000 sqft"
                               \o " then set value to 1.5"
                 => conditions = ConditionWithUnit("building_area",
                                                   "greater_than",
                                                   IntV(10000), StrV("sqft"))

----------------------------------------------------------------------------
(* Actions of parsed rule texts                                            *)

\* The text has an action segment for _extract_actions.
HasActionSegment(text) ==
    In(" then ", Lower(text)) \/ In(" set ", Lower(text))

\* The rule texts of TextSpec that say "If building type is office" and
\* then one action, with the action each of them is to give.
ActionExamples ==
    << [text |-> "If building type is office then set lighting power density to 1.0",
        action |-> Action("set_value", "lighting_power_density", FloatV(1, 0),
                          <<>>)],
       [text |-> "If building type is office then set value to 1.5",
        action |-> Action("set_value", "property", FloatV(15, 1), <<>>)],
       [text |-> "If building type is office then use table t6-a",
        action |-> Action("reference_table", "property", StrV("t6-a"), <<>>)],
       [text |-> "If building type is office then apply method ashrae-90",
        action |-> Action("set_value", "property", IntV(90), <<>>)],
       [text |-> "If building type is office then apply procedure alt_b",
        action |-> Action("apply_method", "property", StrV("alt_b"), <<>>)],
       [text |-> "If building type is office then follow the method of table t2",
        action |-> Action("apply_method", "property", StrV("of"), <<>>)],
       [text |-> "If building type is office then set shgc",
        action |-> Action("set_value", "shgc", StrV(""), <<>>)] >>

\* C19: for a text with an action segment parse_rule_text returns one
\* action; its target is the first entry of the property table found in
\* the segment; with a number in the segment the action is set_value with
\* that number; else with the keyword method or procedure it is
\* apply_method with the token after the keyword, else with the keyword
\* table it is reference_table with the token after the keyword, else it
\* is set_value.
C19_ActionOfSegment ==
    (parsed.call = "parse_rule_text" /\ parsed.rules # <<>>
        /\ HasActionSegment(parsed.text)) =>
        LET segment == action_text(Lower(parsed.text))
            actions == parsed.rules[1].actions
        IN /\ Len(actions) = 1
           /\ actions[1].target
                 = FirstMatch(PROPERTY_PATTERNS, segment, "property")
           /\ IF FirstNumber(segment) # ""
              THEN /\ actions[1].action_type = "set_value"
                   /\ actions[1].value = NumberOfLiteral(FirstNumber(segment))
              ELSE IF In("method", segment) \/ In("procedure", segment)
              THEN /\ actions[1].action_type = "apply_method"
                   /\ actions[1].value
                        = StrV(FirstName({"method", "procedure"}, segment,
                                         FALSE))
              ELSE IF In("table", segment)
              THEN /\ actions[1].action_type = "reference_table"
                   /\ actions[1].value
                        = StrV(FirstName({"table"}, segment, TRUE))
              ELSE actions[1].action_type = "set_value"
           /\ \A k \in 1..Len(ActionExamples) :
                 parsed.text = ActionExamples[k].text
                    => actions = <<ActionExamples[k].action>>

\* The text of test_parse_simple_rule has been parsed to the action that
\* sets lighting_power_density to 1.0.
C19_Witness ==
    /\ parsed.text
         = "If building type is office then set lighting power density to 1.0"
    /\ parsed.rules # <<>>
    /\ parsed.rules[1].actions
         = <<Action("set_value", "lighting_power_density", FloatV(1, 0), <<>>)>>

----------------------------------------------------------------------------
(* Condition segment and action segment of a rule text                     *)

\* The positions in text_lower where one of the separators stands.
SeparatorPositions(text_lower) ==
    {Find(ConditionSeparators[k], text_lower) :
        k \in 1..Len(ConditionSeparators)} \ {0}

\* The separator that stands first in text_lower.
FirstSeparator(text_lower) ==
    ConditionSeparators[
        CHOOSE k \in 1..Len(ConditionSeparators) :
            Find(ConditionSeparators[k], text_lower)
                = Least(SeparatorPositions(text_lower))]

\* What stands before the separator that stands first.
BeforeFirstSeparator(text_lower) ==
    SubSeq(text_lower, 1, Least(SeparatorPositions(text_lower)) - 1)

\* What stands behind the separator that stands first.
AfterFirstSeparator(text_lower) ==
    SubSeq(text_lower,
           Least(SeparatorPositions(text_lower))
              + Len(FirstSeparator(text_lower)),
           Len(text_lower))

\* The condition parsed from a segment alone: a group if the segment holds
\* the word and or the word or, else one condition.
ConditionOfSegment(segment) ==
    IF Search(<<Word("and")>>, segment) \/ Search(<<Word("or")>>, segment)
    THEN RuleParser_parse_condition_group(segment)
    ELSE parse_single_condition(segment)

\* C20: parse_rule_text splits the lower-cased text at the separator that
\* stands first in it among then, set, apply and use, whichever of the four
\* it is: the condition is parsed from what stands before that separator
\* alone and the action from what stands behind it alone.
C20_SplitAtFirstSeparator ==
    (parsed.call = "parse_rule_text" /\ parsed.rules # <<>>
        /\ SeparatorPositions(Lower(parsed.text)) # {}) =>
        /\ parsed.rules[1].conditions
             = ConditionOfSegment(BeforeFirstSeparator(Lower(parsed.text)))
        /\ parsed.rules[1].actions
             = <<ActionOf(AfterFirstSeparator(Lower(parsed.text)))>>

----------------------------------------------------------------------------
(* Groups of parsed conditions                                             *)

\* The segment holds the whole word and or the whole word or.
HasConnective(segment) ==
    Search(<<Word("and")>>, Lower(segment))
        \/ Search(<<Word("or")>>, Lower(segment))

\* C21: parse_rule_text gives a ConditionGroup exactly when the whole word
\* and or the whole word or stands in the condition segment, and one
\* Condition otherwise; a connective that stands in the action segment
\* alone gives no group.
C21_GroupIffConnectiveInConditionSegment ==
    (parsed.call = "parse_rule_text" /\ parsed.rules # <<>>) =>
        (parsed.rules[1].conditions.kind = "ConditionGroup"
            <=> HasConnective(condition_text(parsed.text)))

\* The connective of a group built from a segment: or if " or " stands in
\* it, else and.
ChosenConnective(segment) == IF In(" or ", segment) THEN "or" ELSE "and"

\* The sub-segments of a segment: what stands between the occurrences of
\* its chosen connective.
SubSegments(segment) ==
    Split(segment, " " \o ChosenConnective(segment) \o " ")

\* C22: a ConditionGroup built from text has the operator OR if " or "
\* stands in the condition segment and AND otherwise; the segment is split
\* on that one connective alone and the group holds one Condition, never a
\* group, for each sub-segment, in order; a segment with both connectives
\* gives a flat OR.
C22_FlatGroupOfChosenConnective ==
    (parsed.call = "parse_rule_text" /\ parsed.rules # <<>>
        /\ parsed.rules[1].conditions.kind = "ConditionGroup") =>
        LET segment == Lower(condition_text(parsed.text))
            group == parsed.rules[1].conditions
        IN /\ group.operator = ChosenConnective(segment)
           /\ Len(group.conditions) = Len(SubSegments(segment))
           /\ \A i \in 1..Len(group.conditions) :
                 /\ group.conditions[i].kind = "Condition"
                 /\ group.conditions[i]
                       = parse_single_condition(SubSegments(segment)[i])
           /\ (In(" or ", segment) /\ In(" and ", segment))
                 => /\ group.operator = "or"
                    /\ \E i \in 1..Len(group.conditions) :
                          In(" and ", SubSegments(segment)[i])

\* A text with both connectives has been parsed to a flat OR of two
\* conditions, the first of them from the sub-segment that holds " and ".
C22_Witness ==
    /\ parsed.text
         = "If building type is office and cop exceeds 3 or shgc is below 2"
    /\ parsed.rules # <<>>
    /\ parsed.rules[1].conditions.kind = "ConditionGroup"
    /\ parsed.rules[1].conditions.operator = "or"
    /\ Len(parsed.rules[1].conditions.conditions) = 2
    /\ parsed.rules[1].conditions.conditions[1].kind = "Condition"
    /\ parsed.rules[1].conditions.conditions[1].field = "building_type"
    /\ parsed.rules[1].conditions.conditions[2].field = "shgc"

----------------------------------------------------------------------------
(* Units and values of parsed conditions                                   *)

\* The segment holds one of the phrases of the unit table that name sqft,
\* W/sqft or percent.
HasUnitPhrase(segment) ==
    \E phrase \in {"sq ft", "sqft", "w/sq", "square feet", "watt",
                    "percent", "%"} : In(phrase, segment)

\* C23: the unit of a parsed Condition is the name of the unit-table entry
\* whose phrase stands in the segment: "w/sq ft" gives W/sqft, "sq ft"
\* alone gives sqft, "percent" or "%" gives percent; the unit is absent
\* when the segment holds no unit phrase, as in the condition of
\* "If building type is office then ...".
C23_UnitOfPhrase ==
    (parsed.call = "parse_rule_text" /\ parsed.rules # <<>>
        /\ parsed.rules[1].conditions.kind = "Condition") =>
        LET segment == Lower(condition_text(parsed.text))
            unit == parsed.rules[1].conditions.unit
        IN /\ In("w/sq ft", segment) => unit = StrV("W/sqft")
           /\ (In("sq ft", segment) /\ ~In("w/sq ft", segment))
                 => unit = StrV("sqft")
           /\ ((In("percent", segment) \/ In("%", segment))
                  /\ ~In("sq ft", segment))
                 => unit = StrV("percent")
           /\ (segment = "if building type is office"
                  /\ ~HasUnitPhrase(segment))
                 => unit = NoneV

\* Rule texts of TextSpec with one condition and no action, with the value
\* the condition is to have.
ValueExamples ==
    << [text |-> "If number of stories of 'Retail' exceeds 3",
        value |-> IntV(3)],
       [text |-> "If building area is greater than 10000 sqft",
        value |-> IntV(10000)],
       [text |-> "If lighting power density exceeds 1.5 w/sq ft",
        value |-> FloatV(15, 1)],
       [text |-> "If Building Type equals 'Retail'", value |-> StrV("Retail")],
       [text |-> "If building type is office", value |-> StrV("office")],
       [text |-> "If climate zone is not zone 4a", value |-> StrV("4a")],
       [text |-> "For all buildings", value |-> StrV("")] >>

\* C24: the value of a parsed Condition is the first number in the segment,
\* a float if it has a decimal point and an integer if not; with no number
\* the first quoted string; else the first of the keywords office, retail,
\* residential the segment holds; else the token after "zone"; else the
\* empty string. A number goes before a keyword or a quoted string.
C24_ValueByPriority ==
    (parsed.call = "parse_rule_text" /\ parsed.rules # <<>>
        /\ parsed.rules[1].conditions.kind = "Condition") =>
        LET segment == condition_text(parsed.text)
            value == parsed.rules[1].conditions.value
        IN /\ IF FirstNumber(Lower(segment)) # ""
              THEN /\ value = NumberOfLiteral(FirstNumber(Lower(segment)))
                   /\ value.t = IF In(".", FirstNumber(Lower(segment)))
                                THEN "float" ELSE "int"
              ELSE IF FirstQuoted(segment) # ""
              THEN value = StrV(FirstQuoted(segment))
              ELSE IF \E w \in {"office", "retail", "residential"} :
                         In(w, Lower(segment))
              THEN /\ value.t = "str"
                   /\ value.s \in {"office", "retail", "residential"}
                   /\ In(value.s, Lower(segment))
              ELSE value = StrV(FirstZone(Lower(segment)))
           /\ \A k \in 1..Len(ValueExamples) :
                 parsed.text = ValueExamples[k].text
                    => value = ValueExamples[k].value

\* A text with a quoted string, a keyword and a number has been parsed to
\* a condition whose value is the number.
C24_Witness ==
    /\ parsed.text = "If number of stories of 'Retail' exceeds 3"
    /\ parsed.rules # <<>>
    /\ parsed.rules[1].conditions.kind = "Condition"
    /\ parsed.rules[1].conditions.value = IntV(3)

----------------------------------------------------------------------------
(* Rule texts without a separator                                          *)

\* The action of a rule text without an action segment.
FallbackAction == Action("evaluate", "compliance", StrV("check"), <<>>)

\* C25: if none of the separators then, set, apply, use stands in the
\* text, the condition is parsed from the whole text and the actions are
\* the one fallback action evaluate / compliance / check; in every case
\* the rule parse_rule_text returns has exactly one action.
C25_FallbackAction ==
    (parsed.call = "parse_rule_text" /\ parsed.rules # <<>>) =>
        /\ Len(parsed.rules[1].actions) = 1
        /\ SeparatorPositions(Lower(parsed.text)) = {}
              => /\ parsed.rules[1].actions = <<FallbackAction>>
                 /\ parsed.rules[1].conditions
                      = IF HasConnective(parsed.text)
                        THEN RuleParser_parse_condition_group(parsed.text)
                        ELSE parse_single_condition(parsed.text)

\* A text without a separator has been parsed to its condition, with the
\* quoted value as it is written, and the fallback action.
C25_Witness ==
    /\ parsed.text = "If Building Type equals 'Retail'"
    /\ parsed.rules # <<>>
    /\ parsed.rules[1].conditions.value = StrV("Retail")
    /\ parsed.rules[1].actions = <<FallbackAction>>

----------------------------------------------------------------------------
(* Membership in a string                                                  *)

\* evaluate_rule has been called on a Condition with IN or NOT_IN whose
\* value is a string, the field being present with a string of more than
\* one character.
StringMembershipCase ==
    /\ cond_result # NoResult
    /\ cond.kind = "Condition"
    /\ cond.operator \in {"in", "not_in"}
    /\ cond.value.t = "str"
    /\ cond.field \in DOMAIN cond_spec
    /\ cond_spec[cond.field].t = "str"
    /\ Len(cond_spec[cond.field].s) > 1

\* The spec value stands in the condition's string as a run of characters
\* one after the other.
IsContiguous ==
    \E i \in 1..Len(cond.value.s) : \E j \in i..Len(cond.value.s) :
        SubSeq(cond.value.s, i, j) = cond_spec[cond.field].s

\* C26 as claimed: against a string, IN and NOT_IN test membership by
\* character, so a spec value of more than one character that stands in
\* the string as a contiguous substring is no member: IN is false and
\* NOT_IN is true.
C26_CharacterWiseMembership ==
    (StringMembershipCase /\ IsContiguous) =>
        /\ cond.operator = "in" => cond_result = Ok(FALSE)
        /\ cond.operator = "not_in" => cond_result = Ok(TRUE)

\* C26 as amended: against a string, IN and NOT_IN test membership by
\* substring: IN is true and NOT_IN false exactly when the spec value
\* stands in the string as a contiguous substring.
C26_SubstringMembership ==
    StringMembershipCase =>
        /\ cond.operator = "in" => cond_result = Ok(IsContiguous)
        /\ cond.operator = "not_in" => cond_result = Ok(~IsContiguous)

\* IN is true of "office" against the string "office_retail".
C26_Witness ==
    /\ StringMembershipCase
    /\ cond.operator = "in"
    /\ cond.value = StrV(office_retail)
    /\ cond_spec[cond.field] = StrV(office)
    /\ cond_result = Ok(TRUE)

----------------------------------------------------------------------------
(* Condition trees of loaded documents                                     *)

\* The node carries both keys "operator" and "conditions".
HasGroupKeys(node) == {"operator", "conditions"} \subseteq DOMAIN node

RECURSIVE Mirrors(_, _)
\* The object built from a conditions node: a ConditionGroup with the
\* node's operator and the objects of its members in their order if the
\* node carries both keys, else a Condition with the node's entries.
Mirrors(node, object) ==
    IF HasGroupKeys(node)
    THEN /\ object.kind = "ConditionGroup"
         /\ object.operator = node.operator
         /\ Len(object.conditions) = Len(node.conditions)
         /\ \A i \in 1..Len(node.conditions) :
               Mirrors(node.conditions[i], object.conditions[i])
    ELSE /\ object.kind = "Condition"
         /\ object.field = node.field
         /\ object.operator = node.operator
         /\ object.value = node.value

\* C27: from_dict builds a conditions node, at the top of a rule or at any
\* depth below it, as a ConditionGroup exactly when the node carries both
\* keys "operator" and "conditions" and as a Condition otherwise; a group
\* has the node's logical operator and its members in document order.
\* Every well-formed document is loaded.
C27_GroupIffBothKeys ==
    loaded.exc # "unset" =>
        /\ WellFormedDocument(document) => loaded.exc = ""
        /\ (loaded.exc = "" /\ "rules" \in DOMAIN document) =>
              /\ Len(loaded.val.rules) = Len(document.rules)
              /\ \A i \in 1..Len(document.rules) :
                    Mirrors(document.rules[i].conditions,
                            loaded.val.rules[i].conditions)

\* A document whose first rule has a group with a Condition and a group
\* in it has been loaded.
C27_Witness ==
    /\ loaded.exc = ""
    /\ "rules" \in DOMAIN document
    /\ Len(document.rules) >= 1
    /\ HasGroupKeys(document.rules[1].conditions)
    /\ Len(document.rules[1].conditions.conditions) = 2
    /\ ~HasGroupKeys(document.rules[1].conditions.conditions[1])
    /\ HasGroupKeys(document.rules[1].conditions.conditions[2])
    /\ loaded.val.rules[1].conditions.kind = "ConditionGroup"
    /\ loaded.val.rules[1].conditions.conditions[1].kind = "Condition"
    /\ loaded.val.rules[1].conditions.conditions[2].kind = "ConditionGroup"
    /\ loaded.val.rules[1].conditions.conditions[2].operator = "not"

----------------------------------------------------------------------------
(* Ids of interleaved calls                                                *)

\* No call on the parser started while another call was in progress.
Serialized == \A c \in Callers : parse_calls[c].serial

\* Two of the ids returned so far are the same.
DuplicateId ==
    \E j, k \in 1..Len(auto_ids) : j # k /\ auto_ids[j] = auto_ids[k]

\* C28: as long as the calls on the parser are serialized, the ids they
\* return are rule_001, rule_002, ... with no id returned twice; an id
\* is returned twice only by calls that were interleaved.
C28_SerializedCallsDistinctIds ==
    Serialized =>
        /\ ~DuplicateId
        /\ \A k \in 1..Len(auto_ids) : auto_ids[k] = ExpectedRuleId[k]

\* Two interleaved calls have both incremented the counter before either
\* read it for its id, and both have returned rule_002.
C28_Witness ==
    /\ ~Serialized
    /\ rule_counter = 2
    /\ auto_ids = <<"rule_002", "rule_002">>
    /\ \A c \in Callers : parse_calls[c].returned = 1 /\ parse_calls[c].pc = "idle"

----------------------------------------------------------------------------
(* Fields present with the value None                                      *)

\* The evaluated condition is a Condition on a field the building
\* specification holds with the value None.
NullFieldCase ==
    /\ cond_result.exc # "unset"
    /\ cond.kind = "Condition"
    /\ cond.field \in DOMAIN cond_spec
    /\ cond_spec[cond.field] = NoneV

\* C29: a Condition on a field that the building specification holds with
\* the value None evaluates to False under every operator, not_equals and
\* not_in included, as it does on the specification without the field,
\* and validate_building_spec gives no "Missing field" warning for it.
C29_NullFieldIsFalseAndUnwarned ==
    NullFieldCase =>
        /\ cond_result = Ok(FALSE)
        /\ cond_result = evaluate_rule(cond, WithoutKey(cond_spec, cond.field))
        /\ validate_building_spec(get_required_fields(cond),
                                  cond_spec).warnings = <<>>
        /\ validate_building_spec(get_required_fields(cond),
                                  WithoutKey(cond_spec, cond.field)).warnings
             = << <<"Missing field: ", cond.field>> >>

\* building_type not_in [] has been evaluated against a specification
\* whose building_type is None.
C29_Witness ==
    /\ NullFieldCase
    /\ cond = Condition("building_type", "not_in", ListV(<<>>))
    /\ cond_result = Ok(FALSE)

----------------------------------------------------------------------------
(* Serialization after a round trip                                        *)

\* C30: for every schema s, from_dict(s.to_dict()).to_dict() is
\* s.to_dict(): the keys unit, parameters and metadata left out for an
\* empty value are left out again, and every rule has its priority.
C30_StableSerialization ==
    RoundTripDone =>
        /\ loaded.exc = ""
        /\ to_dict(loaded.val) = to_dict(schema)
        /\ DOMAIN to_dict(loaded.val) = DOMAIN document
        /\ \A i \in 1..Len(schema.rules) :
              /\ "priority" \in DOMAIN to_dict(loaded.val).rules[i]
              /\ "metadata" \in DOMAIN to_dict(loaded.val).rules[i]
                    <=> schema.rules[i].metadata # <<>>

\* A schema without metadata has gone through to_dict and from_dict: its
\* first rule has a Condition with the unit "" and no actions, its second
\* rule the priority 0 and an action without parameters; the schema
\* loaded is not the one serialized.
C30_Witness ==
    /\ RoundTripDone
    /\ loaded.exc = ""
    /\ loaded.val # schema
    /\ schema.metadata = <<>>
    /\ schema.rules = <<SchemaRules[3], SchemaRules[4]>>
    /\ "unit" \notin DOMAIN to_dict(loaded.val).rules[1].conditions
    /\ "metadata" \notin DOMAIN to_dict(loaded.val)
    /\ to_dict(loaded.val).rules[2].priority = 0
    /\ "parameters" \notin DOMAIN to_dict(loaded.val).rules[2].actions[1]


====
